---- MODULE Spec2Model ----
(***************************************************************************)
(* A model of the metadata engine of the E-LIBRARY repository              *)
(* (metadata-system.js: MetadataSchema, MetadataProcessor,                 *)
(* MetadataManager).                                                       *)
(*                                                                         *)
(* JavaScript strings are modelled as sequences of one-character strings,  *)
(* so that trim, toLowerCase, template concatenation and the version       *)
(* regular expression are computed and not assumed.  Every JavaScript      *)
(* value is a record [t, s, a]: t is the kind of the value, s its text     *)
(* (the characters of a string, the digits of a number, the literal of a   *)
(* boolean) and a its elements (of an array, or of the _metadata           *)
(* envelope); an element is a scalar [t, s].  A JavaScript object whose    *)
(* properties the engine reads (an input, a context, a stored entry) is    *)
(* [k, f]: k tells undefined, null and object apart and f maps the own     *)
(* keys to their values; a key can be present with the value undefined.    *)
(***************************************************************************)
EXTENDS Integers, Sequences, FiniteSets, TLC

VARIABLES
    schema,         \* MetadataManager.schema, the schema of its processor too
    metadataStore,  \* MetadataManager.metadataStore
    errors,         \* MetadataProcessor.errors
    warnings,       \* MetadataProcessor.warnings
    clock,          \* the time new Date() reads
    call,           \* the last call made on the manager or processor, with its arguments
    ret,            \* what that call returned, or that it raised
    pre,            \* metadataStore as it was when that call started
    newStore,       \* the metadataStore of the second manager of the export/import example
    database,       \* the users and profiles the database manager is connected to
    reader          \* the variables of reader.js, its page container and its pending renders

vars == <<schema, metadataStore, errors, warnings, clock, call, ret, pre, newStore, database,
          reader>>

\* The longest store the model builds by adding entries.
MaxStore == 2
\* The same, where the entries are updated.
MaxUpdateStore == 1
\* The same, where the store is deduplicated.
MaxDedupStore == 3
\* The last tick of the clock.
MaxClock == 2

(***************************************************************************)
(* Strings                                                                 *)
(***************************************************************************)

DigitChars == <<"0", "1", "2", "3", "4", "5", "6", "7", "8", "9">>

IsDigit(c) == \E i \in DOMAIN DigitChars : DigitChars[i] = c

DigitValue(c) == (CHOOSE i \in DOMAIN DigitChars : DigitChars[i] = c) - 1

UpperToLower ==
    [A |-> "a", B |-> "b", C |-> "c", D |-> "d", E |-> "e", F |-> "f", G |-> "g",
     H |-> "h", I |-> "i", J |-> "j", K |-> "k", L |-> "l", M |-> "m", N |-> "n",
     O |-> "o", P |-> "p", Q |-> "q", R |-> "r", S |-> "s", T |-> "t", U |-> "u",
     V |-> "v", W |-> "w", X |-> "x", Y |-> "y", Z |-> "z"]

\* String.prototype.toLowerCase
toLowerCase(s) ==
    [i \in 1..Len(s) |-> IF s[i] \in DOMAIN UpperToLower THEN UpperToLower[s[i]] ELSE s[i]]

RECURSIVE trimStart(_)
trimStart(s) == IF s # <<>> /\ Head(s) = " " THEN trimStart(Tail(s)) ELSE s

RECURSIVE trimEnd(_)
trimEnd(s) ==
    IF s # <<>> /\ s[Len(s)] = " " THEN trimEnd(SubSeq(s, 1, Len(s) - 1)) ELSE s

\* A variant of trim that takes one blank off each end.
trimOnce(s) ==
    LET started == IF s # <<>> /\ Head(s) = " " THEN Tail(s) ELSE s
    IN  IF started # <<>> /\ started[Len(started)] = " "
        THEN SubSeq(started, 1, Len(started) - 1) ELSE started

\* String.prototype.trim
trim(s) == trimEnd(trimStart(s))

\* /^\d+\.\d+\.\d+$/.test(s) for a string s
SemverTest(s) ==
    \E i, j \in 1..Len(s) :
        /\ 1 < i /\ i + 1 < j /\ j < Len(s)
        /\ s[i] = "." /\ s[j] = "."
        /\ \A k \in (1..Len(s)) \ {i, j} : IsDigit(s[k])

(***************************************************************************)
(* JavaScript values                                                       *)
(***************************************************************************)

Undefined == [t |-> "undefined", s |-> <<>>, a |-> <<>>]
Null      == [t |-> "null", s |-> <<>>, a |-> <<>>]
Str(s)    == [t |-> "string", s |-> s, a |-> <<>>]
Num(s)    == [t |-> "number", s |-> s, a |-> <<>>]
Bool(b)   == [t |-> "boolean", s |-> IF b THEN <<"true">> ELSE <<"false">>, a |-> <<>>]
Arr(a)    == [t |-> "array", s |-> <<>>, a |-> a]
EStr(s)   == [t |-> "string", s |-> s]
ENum(s)   == [t |-> "number", s |-> s]
EBool(b)  == [t |-> "boolean", s |-> IF b THEN <<"true">> ELSE <<"false">>]

\* An array of strings.
StrArr(ss) == Arr([i \in 1..Len(ss) |-> EStr(ss[i])])

\* typeof value
typeof(v) == IF v.t \in {"null", "array", "object"} THEN "object" ELSE v.t

\* Whether a value counts as true in a condition (value && ..., if (value)).
Truthy(v) ==
    CASE v.t \in {"undefined", "null"} -> FALSE
      [] v.t = "string"  -> v.s # <<>>
      [] v.t = "number"  -> v.s # <<"0">>
      [] v.t = "boolean" -> v.s = <<"true">>
      [] OTHER -> TRUE

\* Objects: undefined, null, or a map from own keys to values.
NoObject   == [k |-> "undefined", f |-> <<>>]
NullObject == [k |-> "null", f |-> <<>>]
Obj(f)     == [k |-> "object", f |-> f]

\* object[key]: the value of an own key, undefined for a key the object has not.
\* (On undefined and null the read raises; the callers test for that.)
Get(o, key) == IF key \in DOMAIN o.f THEN o.f[key] ELSE Undefined

\* Object.keys(object)
Keys(o) == DOMAIN o.f

(***************************************************************************)
(* Conversions to text, and dates                                          *)
(*                                                                         *)
(* A time is a number of clock ticks.  The string toISOString() gives for  *)
(* the time n is "T" followed by the decimal digits of n; "D" followed by  *)
(* digits stands for a date string that Date.parse accepts and that is not *)
(* in toISOString's form (such as "2024-01-01"); every other string is not *)
(* a date.                                                                 *)
(***************************************************************************)

NaN == 0 - 1

RECURSIVE Decimal(_)
Decimal(n) == IF n < 10 THEN <<DigitChars[n + 1]>>
              ELSE Decimal(n \div 10) \o <<DigitChars[(n % 10) + 1]>>

RECURSIVE DecimalValue(_)
DecimalValue(s) == IF s = <<>> THEN 0
                   ELSE 10 * DecimalValue(SubSeq(s, 1, Len(s) - 1)) + DigitValue(s[Len(s)])

\* Date.prototype.toISOString for a valid time
toISOString(n) == <<"T">> \o Decimal(n)

\* Date.parse of a string: the time, or NaN
DateParse(s) ==
    IF Len(s) >= 2 /\ s[1] \in {"T", "D"} /\ \A i \in 2..Len(s) : IsDigit(s[i])
    THEN DecimalValue(Tail(s))
    ELSE NaN

RECURSIVE JoinElems(_)
\* Array.prototype.join(",") over the elements of an array
JoinElems(a) ==
    IF a = <<>> THEN <<>>
    ELSE LET h == IF Head(a).t \in {"undefined", "null"} THEN <<>> ELSE Head(a).s
         IN  IF Len(a) = 1 THEN h ELSE h \o <<",">> \o JoinElems(Tail(a))

\* String(value), as a template literal `${value}` computes it
StringOf(v) ==
    CASE v.t = "undefined" -> <<"u", "n", "d", "e", "f", "i", "n", "e", "d">>
      [] v.t = "null"      -> <<"n", "u", "l", "l">>
      [] v.t = "array"     -> JoinElems(v.a)
      [] v.t = "object"    -> <<"[", "o", "b", "j", "e", "c", "t", " ", "O", "b", "j", "e", "c", "t", "]">>
      [] v.t = "boolean"   -> IF v.s = <<"true">> THEN <<"t", "r", "u", "e">>
                              ELSE <<"f", "a", "l", "s", "e">>
      [] OTHER             -> v.s

\* The time value of new Date(value)
DateOf(v) ==
    CASE v.t = "string"    -> DateParse(v.s)
      [] v.t = "undefined" -> NaN
      [] v.t = "null"      -> 0
      [] v.t = "number"    -> DecimalValue(v.s)
      [] v.t = "boolean"   -> IF v.s = <<"true">> THEN 1 ELSE 0
      [] OTHER             -> DateParse(StringOf(v))

(***************************************************************************)
(* MetadataSchema: the functions of the field rules.  A validate function  *)
(* gives [threw, result], a normalize or infer function [threw, value].    *)
(***************************************************************************)

\* title.validate and zone.validate: (value) => value && value.trim().length > 0
title_validate(value) ==
    IF ~Truthy(value) THEN [threw |-> FALSE, result |-> FALSE]
    ELSE IF value.t # "string" THEN [threw |-> TRUE, result |-> FALSE]
    ELSE [threw |-> FALSE, result |-> Len(trim(value.s)) > 0]

\* title.normalize and version.normalize: (value) => value.trim()
title_normalize(value) ==
    IF value.t # "string" THEN [threw |-> TRUE, value |-> Undefined]
    ELSE [threw |-> FALSE, value |-> Str(trim(value.s))]

author_validate(value) ==
    [threw |-> FALSE,
     result |->
        CASE value.t = "string" -> Len(trim(value.s)) > 0
          [] value.t = "array"  ->
                /\ Len(value.a) > 0
                /\ \A i \in 1..Len(value.a) :
                      value.a[i].t = "string" /\ Len(trim(value.a[i].s)) > 0
          [] OTHER -> FALSE]

RECURSIVE UniqLast(_, _)
\* A variant of Uniq that keeps the last occurrence of each element.
UniqLast(list, seen) ==
    IF list = <<>> THEN <<>>
    ELSE IF \E i \in 2..Len(list) : list[i] = Head(list) THEN UniqLast(Tail(list), seen)
    ELSE <<Head(list)>> \o UniqLast(Tail(list), seen)

RECURSIVE Uniq(_, _)
\* [...new Set(list)]: the first occurrence of each element, in order
Uniq(list, seen) ==
    IF list = <<>> THEN <<>>
    ELSE IF Head(list) \in seen THEN Uniq(Tail(list), seen)
    ELSE <<Head(list)>> \o Uniq(Tail(list), seen \cup {Head(list)})

author_normalize(value) ==
    CASE value.t = "string" -> [threw |-> FALSE, value |-> Str(trim(value.s))]
      [] value.t = "array"  ->
            IF \E i \in 1..Len(value.a) : value.a[i].t # "string"
            THEN [threw |-> TRUE, value |-> Undefined]
            ELSE LET trimmed  == [i \in 1..Len(value.a) |-> trim(value.a[i].s)]
                     nonEmpty == SelectSeq(trimmed, LAMBDA x : Len(x) > 0)
                 IN  [threw |-> FALSE, value |-> StrArr(Uniq(nonEmpty, {}))]
      [] OTHER -> [threw |-> FALSE, value |-> value]

\* A variant of zone.normalize that does not lowercase.
zone_normalizeTrimOnly(value) ==
    IF value.t # "string" THEN [threw |-> TRUE, value |-> Undefined]
    ELSE [threw |-> FALSE, value |-> Str(trim(value.s))]

\* zone.normalize: (value) => value.trim().toLowerCase()
zone_normalize(value) ==
    IF value.t # "string" THEN [threw |-> TRUE, value |-> Undefined]
    ELSE [threw |-> FALSE, value |-> Str(toLowerCase(trim(value.s)))]

\* A variant of zone.infer that prefers the first tag to the category.
zone_inferTagsFirst(context) ==
    LET category == Get(context, "category")
        tags     == Get(context, "tags")
    IN  IF tags.t = "array" /\ Len(tags.a) > 0 /\ tags.a[1].t = "string"
        THEN [threw |-> FALSE, value |-> Str(toLowerCase(tags.a[1].s))]
        ELSE IF Truthy(category) /\ category.t = "string"
        THEN [threw |-> FALSE, value |-> Str(toLowerCase(category.s))]
        ELSE [threw |-> FALSE, value |-> Str(<<"g", "e", "n", "e", "r", "a", "l">>)]

\* zone.infer
zone_infer(context) ==
    LET category == Get(context, "category")
        tags     == Get(context, "tags")
        length   == CASE tags.t = "array"  -> Len(tags.a)
                      [] tags.t = "string" -> Len(tags.s)
                      [] OTHER -> NaN
    IN  IF Truthy(category)
        THEN IF category.t = "string"
             THEN [threw |-> FALSE, value |-> Str(toLowerCase(category.s))]
             ELSE [threw |-> TRUE, value |-> Undefined]
        ELSE IF Truthy(tags) /\ length > 0
        THEN CASE tags.t = "string" ->
                    [threw |-> FALSE, value |-> Str(toLowerCase(<<tags.s[1]>>))]
               [] tags.a[1].t = "string" ->
                    [threw |-> FALSE, value |-> Str(toLowerCase(tags.a[1].s))]
               [] OTHER -> [threw |-> TRUE, value |-> Undefined]
        ELSE [threw |-> FALSE, value |-> Str(<<"g", "e", "n", "e", "r", "a", "l">>)]

\* created_at.validate and updated_at.validate: (value) => !isNaN(Date.parse(value))
created_at_validate(value) ==
    [threw |-> FALSE, result |-> DateParse(StringOf(value)) # NaN]

\* created_at.normalize and updated_at.normalize: (value) => new Date(value).toISOString()
created_at_normalize(value) ==
    IF DateOf(value) = NaN THEN [threw |-> TRUE, value |-> Undefined]
    ELSE [threw |-> FALSE, value |-> Str(toISOString(DateOf(value)))]

\* version.validate: (value) => /^\d+\.\d+\.\d+$/.test(value)
version_validate(value) ==
    [threw |-> FALSE, result |-> SemverTest(StringOf(value))]

\* zone.validate
zone_validate(value) == title_validate(value)

updated_at_validate(value) == created_at_validate(value)

updated_at_normalize(value) == created_at_normalize(value)

\* version.normalize: (value) => value.trim()
version_normalize(value) == title_normalize(value)

\* The rules of the schema, in the order Object.entries gives them.  A rule names
\* its functions; default is the default value, or (defaultIsFunction) the
\* function () => new Date().toISOString().
MetadataSchema ==
    [order |-> <<"title", "author", "zone", "created_at", "updated_at", "version">>,
     rules |->
       [title |->
          [type |-> <<"string">>, required |-> TRUE, validate |-> "title_validate",
           default |-> Str(<<"U", "n", "t", "i", "t", "l", "e", "d", " ",
                             "D", "o", "c", "u", "m", "e", "n", "t">>),
           defaultIsFunction |-> FALSE,
           normalize |-> "title_normalize", infer |-> "none"],
        author |->
          [type |-> <<"string", "array">>, required |-> TRUE, validate |-> "author_validate",
           default |-> Str(<<"U", "n", "k", "n", "o", "w", "n", " ",
                             "A", "u", "t", "h", "o", "r">>),
           defaultIsFunction |-> FALSE,
           normalize |-> "author_normalize", infer |-> "none"],
        zone |->
          [type |-> <<"string">>, required |-> TRUE, validate |-> "zone_validate",
           default |-> Str(<<"g", "e", "n", "e", "r", "a", "l">>),
           defaultIsFunction |-> FALSE,
           normalize |-> "zone_normalize", infer |-> "zone_infer"],
        created_at |->
          [type |-> <<"string">>, required |-> FALSE, validate |-> "created_at_validate",
           default |-> Undefined, defaultIsFunction |-> TRUE,
           normalize |-> "created_at_normalize", infer |-> "none"],
        updated_at |->
          [type |-> <<"string">>, required |-> FALSE, validate |-> "updated_at_validate",
           default |-> Undefined, defaultIsFunction |-> TRUE,
           normalize |-> "updated_at_normalize", infer |-> "none"],
        version |->
          [type |-> <<"string">>, required |-> FALSE, validate |-> "version_validate",
           default |-> Str(<<"1", ".", "0", ".", "0">>),
           defaultIsFunction |-> FALSE,
           normalize |-> "version_normalize", infer |-> "none"]]]

\* rules.validate(value)
CallValidate(fn, value) ==
    CASE fn = "title_validate"      -> title_validate(value)
      [] fn = "author_validate"     -> author_validate(value)
      [] fn = "zone_validate"       -> zone_validate(value)
      [] fn = "created_at_validate" -> created_at_validate(value)
      [] fn = "updated_at_validate" -> updated_at_validate(value)
      [] fn = "version_validate"    -> version_validate(value)

\* rules.normalize(value)
CallNormalize(fn, value) ==
    CASE fn = "title_normalize"      -> title_normalize(value)
      [] fn = "author_normalize"     -> author_normalize(value)
      [] fn = "zone_normalize"       -> zone_normalize(value)
      [] fn = "created_at_normalize" -> created_at_normalize(value)
      [] fn = "updated_at_normalize" -> updated_at_normalize(value)
      [] fn = "version_normalize"    -> version_normalize(value)

\* rules.infer(context)
CallInfer(fn, context) ==
    CASE fn = "zone_infer" -> zone_infer(context)

\* The message of the error a normalize function raises.
NormalizeError(fn) ==
    IF fn \in {"created_at_normalize", "updated_at_normalize"}
    THEN "Invalid time value"
    ELSE "value.trim is not a function"

(***************************************************************************)
(* MetadataProcessor                                                       *)
(***************************************************************************)

\* validateType(value, expectedType); a single type name is a list of one.
validateType(value, expectedType) ==
    \E i \in 1..Len(expectedType) :
        IF expectedType[i] = "array" THEN value.t = "array"
        ELSE typeof(value) = expectedType[i]

\* A variant of applyDefault that has no default to give.
applyDefaultNone(rules, now) == Undefined

\* applyDefault(rules), with now the time a function default reads.
applyDefault(rules, now) ==
    IF rules.defaultIsFunction THEN Str(toISOString(now)) ELSE rules.default

\* `${rules.type}`
TypeText(expectedType) ==
    IF Len(expectedType) = 1 THEN expectedType[1]
    ELSE expectedType[1] \o "," \o expectedType[2]

\* What processField leaves when it raises: the message, and the warnings it had
\* pushed before.
Raised(msg, w) == [threw |-> TRUE, error |-> msg, value |-> Undefined, warnings |-> w]

\* processField from its type validation on: value is the value given, inferred
\* or defaulted, and w the warnings pushed for it.
ProcessValue(fieldName, value, w, rules) ==
    LET Validated(n, c) ==
            IF c.threw THEN Raised("value.trim is not a function", w)
            ELSE IF ~c.result THEN Raised("Validation failed for " \o fieldName, w)
            ELSE [threw |-> FALSE, error |-> "", value |-> n.value, warnings |-> w]
        Normalized(n) ==
            IF n.threw THEN Raised(NormalizeError(rules.normalize), w)
            ELSE Validated(n, IF rules.validate # "none"
                              THEN CallValidate(rules.validate, n.value)
                              ELSE [threw |-> FALSE, result |-> TRUE])
    IN  IF ~validateType(value, rules.type)
        THEN Raised("Invalid type for " \o fieldName \o ". Expected "
                      \o TypeText(rules.type) \o ", got " \o typeof(value), w)
        ELSE Normalized(IF rules.normalize # "none"
                        THEN CallNormalize(rules.normalize, value)
                        ELSE [threw |-> FALSE, value |-> value])

\* processField(fieldName, value, rules, context): [threw, error, value, warnings],
\* warnings being the warnings the call pushed (also when it raised after them).
processField(fieldName, value, rules, context, now) ==
    LET Inferred(inferred) ==
            IF inferred.threw THEN Raised("toLowerCase is not a function", <<>>)
            ELSE ProcessValue(fieldName, inferred.value,
                     <<[field |-> fieldName, message |-> "Value inferred from context"]>>,
                     rules)
    IN  IF value.t \notin {"undefined", "null"}
        THEN ProcessValue(fieldName, value, <<>>, rules)
        ELSE IF rules.infer # "none" /\ context.k = "object"
        THEN Inferred(CallInfer(rules.infer, context))
        ELSE IF rules.required
        THEN ProcessValue(fieldName, applyDefault(rules, now),
                 <<[field |-> fieldName,
                    message |-> "Required field missing, using default"]>>,
                 rules)
        ELSE [threw |-> FALSE, error |-> "", value |-> Undefined, warnings |-> <<>>]

\* A variant of that turn which substitutes the default for every field that
\* fails, required or not.
CreateFieldDefaultAll(aSchema, input, context, now, acc, field) ==
    LET Assign(r, rules) ==
            IF ~r.threw
            THEN [f |-> (field :> r.value) @@ acc.f, errors |-> acc.errors,
                  warnings |-> acc.warnings \o r.warnings]
            ELSE [f |-> (field :> applyDefault(rules, now)) @@ acc.f,
                  errors |-> Append(acc.errors, [field |-> field, error |-> r.error]),
                  warnings |-> Append(acc.warnings \o r.warnings,
                      [field |-> field,
                       message |-> "Used default value due to error: " \o r.error])]
    IN  Assign(IF input.k = "null"
               THEN Raised("Cannot read properties of null", <<>>)
               ELSE processField(field, Get(input, field), aSchema.rules[field],
                                 context, now),
               aSchema.rules[field])

\* One turn of the loop of createMetadata: acc is [f, errors, warnings], the keys
\* of metadata set so far and the two lists of the processor.  Reading a field
\* of a null input raises inside the try block.
CreateField(aSchema, input, context, now, acc, field) ==
    LET Assign(r, rules) ==
            IF ~r.threw
            THEN [f |-> (field :> r.value) @@ acc.f, errors |-> acc.errors,
                  warnings |-> acc.warnings \o r.warnings]
            ELSE IF rules.required
            THEN [f |-> (field :> applyDefault(rules, now)) @@ acc.f,
                  errors |-> Append(acc.errors, [field |-> field, error |-> r.error]),
                  warnings |-> Append(acc.warnings \o r.warnings,
                      [field |-> field,
                       message |-> "Used default value due to error: " \o r.error])]
            ELSE [f |-> acc.f,
                  errors |-> Append(acc.errors, [field |-> field, error |-> r.error]),
                  warnings |-> acc.warnings \o r.warnings]
    IN  Assign(IF input.k = "null"
               THEN Raised("Cannot read properties of null", <<>>)
               ELSE processField(field, Get(input, field), aSchema.rules[field],
                                 context, now),
               aSchema.rules[field])

RECURSIVE CreateLoop(_, _, _, _, _, _)
CreateLoop(aSchema, input, context, now, acc, i) ==
    IF i > Len(aSchema.order) THEN acc
    ELSE CreateLoop(aSchema, input, context, now,
                    CreateField(aSchema, input, context, now, acc, aSchema.order[i]), i + 1)

\* The _metadata envelope: processed_at, processor_version, has_errors, has_warnings.
Envelope(now, hasErrors, hasWarnings) ==
    [t |-> "object", s |-> <<>>,
     a |-> <<EStr(toISOString(now)), EStr(<<"1", ".", "0", ".", "0">>),
             EBool(hasErrors), EBool(hasWarnings)>>]

\* The record and the lists of the processor when createMetadata starts its
\* loop: this.errors = [], this.warnings = [], metadata = {}.
StartOfCallKeepLists == [f |-> <<>>, errors |-> errors, warnings |-> warnings]

StartOfCall == [f |-> <<>>, errors |-> <<>>, warnings |-> <<>>]

\* createMetadata(input = {}, context = {}): [metadata, errors, warnings], the
\* record returned and the lists of the processor after the call.
createMetadata(aSchema, input, context, now) ==
    LET Finish(acc) ==
            [metadata |-> Obj(("_metadata" :>
                                 Envelope(now, Len(acc.errors) > 0, Len(acc.warnings) > 0))
                              @@ acc.f),
             errors |-> acc.errors,
             warnings |-> acc.warnings]
    IN  Finish(CreateLoop(aSchema,
                          IF input.k = "undefined" THEN Obj(<<>>) ELSE input,
                          IF context.k = "undefined" THEN Obj(<<>>) ELSE context,
                          now, StartOfCall, 1))

\* One turn of the loop of validate: acc is [threw, valid, errors].
ValidateField(aSchema, metadata, acc, field) ==
    LET TypeErrors(rules, value, typeOk) ==
            IF typeOk THEN acc.errors
            ELSE Append(acc.errors,
                   [field |-> field,
                    message |-> "Invalid type. Expected " \o TypeText(rules.type)
                                  \o ", got " \o typeof(value)])
        Judge(rules, value, typeOk, c) ==
            IF c.threw
            THEN [threw |-> TRUE, valid |-> FALSE, errors |-> TypeErrors(rules, value, typeOk)]
            ELSE [threw |-> FALSE, valid |-> acc.valid /\ typeOk /\ c.result,
                  errors |-> IF c.result THEN TypeErrors(rules, value, typeOk)
                             ELSE Append(TypeErrors(rules, value, typeOk),
                                    [field |-> field,
                                     message |-> "Custom validation failed"])]
        Check(rules, value) ==
            IF acc.threw THEN acc
            ELSE IF rules.required /\ value.t \in {"undefined", "null"}
            THEN [threw |-> FALSE, valid |-> FALSE,
                  errors |-> Append(acc.errors,
                               [field |-> field, message |-> "Required field is missing"])]
            ELSE IF value.t \in {"undefined", "null"} THEN acc
            ELSE Judge(rules, value, validateType(value, rules.type),
                       IF rules.validate # "none"
                       THEN CallValidate(rules.validate, value)
                       ELSE [threw |-> FALSE, result |-> TRUE])
    IN  Check(aSchema.rules[field], Get(metadata, field))

RECURSIVE ValidateLoop(_, _, _, _)
ValidateLoop(aSchema, metadata, acc, i) ==
    IF i > Len(aSchema.order) THEN acc
    ELSE ValidateLoop(aSchema, metadata,
                      ValidateField(aSchema, metadata, acc, aSchema.order[i]), i + 1)

\* validate(metadata): [threw, valid, errors]; reading a field of null raises.
validate(aSchema, metadata) ==
    IF metadata.k # "object" THEN [threw |-> TRUE, valid |-> FALSE, errors |-> <<>>]
    ELSE ValidateLoop(aSchema, metadata,
                      [threw |-> FALSE, valid |-> TRUE, errors |-> <<>>], 1)

\* The fields of the schema, as a set.
SchemaFields(aSchema) == {aSchema.order[i] : i \in 1..Len(aSchema.order)}

\* A variant of normalize that returns the keys of the schema only.
normalizeSchemaKeys(aSchema, metadata) ==
    LET Each(key) == IF aSchema.rules[key].normalize # "none"
                     THEN CallNormalize(aSchema.rules[key].normalize, metadata.f[key])
                     ELSE [threw |-> FALSE, value |-> metadata.f[key]]
        Result(all) ==
            IF \E key \in DOMAIN all : all[key].threw
            THEN [threw |-> TRUE, value |-> Obj(<<>>)]
            ELSE [threw |-> FALSE, value |-> Obj([key \in DOMAIN all |-> all[key].value])]
    IN  Result([key \in Keys(metadata) \cap SchemaFields(aSchema) |-> Each(key)])

\* normalize(metadata): [threw, value]; it raises when a normalize function does.
normalize(aSchema, metadata) ==
    LET Has(key) == key \in SchemaFields(aSchema) /\ aSchema.rules[key].normalize # "none"
        Each(key) == IF Has(key)
                     THEN CallNormalize(aSchema.rules[key].normalize, metadata.f[key])
                     ELSE [threw |-> FALSE, value |-> metadata.f[key]]
        Result(all) ==
            IF \E key \in DOMAIN all : all[key].threw
            THEN [threw |-> TRUE, value |-> Obj(<<>>)]
            ELSE [threw |-> FALSE, value |-> Obj([key \in DOMAIN all |-> all[key].value])]
    IN  Result([key \in Keys(metadata) |-> Each(key)])

(***************************************************************************)
(* JSON                                                                    *)
(*                                                                         *)
(* A JSON text is [wellFormed, indent, value]: whether JSON.parse accepts  *)
(* it, the indentation it is written with, and the value it denotes, which *)
(* is [kind, items]: a list (kind "array") of entries, or another value.   *)
(* JSON has no undefined: JSON.stringify leaves out the keys of an object  *)
(* whose value is undefined.                                               *)
(***************************************************************************)

\* JSON.stringify of one entry of the store.
StringifyEntry(entry) ==
    IF entry.k # "object" THEN NullObject
    ELSE Obj([key \in {x \in Keys(entry) : entry.f[x].t # "undefined"} |-> entry.f[key]])

\* JSON.stringify(list, null, indent)
JSONstringify(list, indent) ==
    [wellFormed |-> TRUE, indent |-> indent,
     value |-> [kind |-> "array",
                items |-> [i \in 1..Len(list) |-> StringifyEntry(list[i])]]]

\* JSON.parse(text): [threw, value]
JSONparse(text) ==
    IF text.wellFormed THEN [threw |-> FALSE, value |-> text.value]
    ELSE [threw |-> TRUE, value |-> [kind |-> "undefined", items |-> <<>>]]

RECURSIVE QuoteElems(_)
QuoteElems(a) ==
    IF a = <<>> THEN <<>>
    ELSE LET h == CASE Head(a).t = "string" -> <<"\"">> \o Head(a).s \o <<"\"">>
                    [] Head(a).t \in {"undefined", "null"} -> <<"n", "u", "l", "l">>
                    [] OTHER -> Head(a).s
         IN  IF Len(a) = 1 THEN h ELSE h \o <<",">> \o QuoteElems(Tail(a))

\* `${JSON.stringify(value)}` for a value that is no object: the characters of the
\* compact JSON text (JSON.stringify(undefined) is undefined).
StringifyChars(value) ==
    CASE value.t = "string"    -> <<"\"">> \o value.s \o <<"\"">>
      [] value.t = "array"     -> <<"[">> \o QuoteElems(value.a) \o <<"]">>
      [] value.t = "undefined" -> StringOf(Undefined)
      [] value.t \in {"null", "number", "boolean"} -> StringOf(value)

(***************************************************************************)
(* MetadataManager.  Every method is an operator from the store (and the   *)
(* arguments) to what the call leaves: threw, the store, the value         *)
(* returned, and for addMetadata the lists of the processor.               *)
(***************************************************************************)

\* A variant of addMetadata that pushes the record before it validates it.
addMetadataPushFirst(aSchema, store, input, context, now) ==
    LET Decide(created, validation) ==
            [threw |-> validation.threw \/ ~validation.valid,
             store |-> Append(store, created.metadata),
             value |-> IF validation.threw \/ ~validation.valid THEN NoObject
                       ELSE created.metadata,
             errors |-> created.errors, warnings |-> created.warnings]
        Validate(created) == Decide(created, validate(aSchema, created.metadata))
    IN  Validate(createMetadata(aSchema, input, context, now))

addMetadata(aSchema, store, input, context, now) ==
    LET Decide(created, validation) ==
            IF validation.threw \/ ~validation.valid
            THEN [threw |-> TRUE, store |-> store, value |-> NoObject,
                  errors |-> created.errors, warnings |-> created.warnings]
            ELSE [threw |-> FALSE, store |-> Append(store, created.metadata),
                  value |-> created.metadata,
                  errors |-> created.errors, warnings |-> created.warnings]
        Validate(created) == Decide(created, validate(aSchema, created.metadata))
    IN  Validate(createMetadata(aSchema, input, context, now))

\* A variant of updateMetadata that writes the slot before it validates.
updateMetadataWriteFirst(aSchema, store, index, updates, now) ==
    LET Decide(normalized, validation) ==
            [threw |-> validation.threw \/ ~validation.valid,
             error |-> IF validation.threw \/ ~validation.valid
                       THEN "Update validation failed" ELSE "",
             store |-> [store EXCEPT ![index + 1] = normalized],
             value |-> IF validation.threw \/ ~validation.valid THEN NoObject
                       ELSE normalized]
        Validate(normalized) ==
            IF normalized.threw
            THEN [threw |-> TRUE, error |-> "normalize", store |-> store,
                  value |-> NoObject]
            ELSE Decide(normalized.value, validate(aSchema, normalized.value))
        Stamp(merged) ==
            IF "updated_at" \in SchemaFields(aSchema)
            THEN Obj(("updated_at" :> Str(toISOString(now))) @@ merged)
            ELSE Obj(merged)
    IN  IF index < 0 \/ index >= Len(store)
        THEN [threw |-> TRUE, error |-> "Invalid metadata index", store |-> store,
              value |-> NoObject]
        ELSE Validate(normalize(aSchema, Stamp(updates.f @@ store[index + 1].f)))

\* A variant of updateMetadata that keeps the updated_at of the updates when
\* they give one.
updateMetadataKeepStamp(aSchema, store, index, updates, now) ==
    LET Decide(normalized, validation) ==
            IF validation.threw \/ ~validation.valid
            THEN [threw |-> TRUE, error |-> "Update validation failed", store |-> store,
                  value |-> NoObject]
            ELSE [threw |-> FALSE, error |-> "",
                  store |-> [store EXCEPT ![index + 1] = normalized],
                  value |-> normalized]
        Validate(normalized) ==
            IF normalized.threw
            THEN [threw |-> TRUE, error |-> "normalize", store |-> store,
                  value |-> NoObject]
            ELSE Decide(normalized.value, validate(aSchema, normalized.value))
        Stamp(merged) ==
            IF "updated_at" \in SchemaFields(aSchema) /\ "updated_at" \notin Keys(updates)
            THEN Obj(("updated_at" :> Str(toISOString(now))) @@ merged)
            ELSE Obj(merged)
    IN  IF index < 0 \/ index >= Len(store)
        THEN [threw |-> TRUE, error |-> "Invalid metadata index", store |-> store,
              value |-> NoObject]
        ELSE Validate(normalize(aSchema, Stamp(updates.f @@ store[index + 1].f)))

\* updateMetadata(index, updates), index an integer counted from 0.
updateMetadata(aSchema, store, index, updates, now) ==
    LET Decide(normalized, validation) ==
            IF validation.threw \/ ~validation.valid
            THEN [threw |-> TRUE, error |-> "Update validation failed", store |-> store,
                  value |-> NoObject]
            ELSE [threw |-> FALSE, error |-> "",
                  store |-> [store EXCEPT ![index + 1] = normalized],
                  value |-> normalized]
        Validate(normalized) ==
            IF normalized.threw
            THEN [threw |-> TRUE, error |-> "normalize", store |-> store,
                  value |-> NoObject]
            ELSE Decide(normalized.value, validate(aSchema, normalized.value))
        Stamp(merged) ==
            IF "updated_at" \in SchemaFields(aSchema)
            THEN Obj(("updated_at" :> Str(toISOString(now))) @@ merged)
            ELSE Obj(merged)
    IN  IF index < 0 \/ index >= Len(store)
        THEN [threw |-> TRUE, error |-> "Invalid metadata index", store |-> store,
              value |-> NoObject]
        ELSE Validate(normalize(aSchema, Stamp(updates.f @@ store[index + 1].f)))

\* A variant of the key of deduplicate that is the title alone.
DedupKeyTitle(item) == StringOf(Get(item, "title"))

\* The key deduplicate gives an entry: `${item.title}:${JSON.stringify(item.author)}`
DedupKey(item) ==
    StringOf(Get(item, "title")) \o <<":">> \o StringifyChars(Get(item, "author"))

RECURSIVE DedupFilter(_, _)
\* The filter of deduplicate, seen being the keys met so far.
DedupFilter(list, seen) ==
    IF list = <<>> THEN <<>>
    ELSE IF DedupKey(Head(list)) \in seen THEN DedupFilter(Tail(list), seen)
    ELSE <<Head(list)>> \o DedupFilter(Tail(list), seen \cup {DedupKey(Head(list))})

deduplicate(store) == DedupFilter(store, {})

exportJSON(store, pretty) == JSONstringify(store, IF pretty THEN 2 ELSE 0)

\* A variant of importJSON that takes the parsed value as the store before it
\* checks that it is a list.
importJSONStoreFirst(aSchema, store, jsonString) ==
    LET Use(parsed) ==
            IF parsed.threw
            THEN [threw |-> FALSE, value |-> FALSE, store |-> store]
            ELSE IF \/ parsed.value.kind # "array"
                    \/ \E i \in 1..Len(parsed.value.items) :
                          validate(aSchema, parsed.value.items[i]).threw
            THEN [threw |-> FALSE, value |-> FALSE, store |-> parsed.value.items]
            ELSE [threw |-> FALSE, value |-> TRUE, store |-> parsed.value.items]
    IN  Use(JSONparse(jsonString))

\* importJSON(jsonString): [threw, value, store]; value is the boolean returned.
\* Whatever is raised inside the try block is caught.
importJSON(aSchema, store, jsonString) ==
    LET Use(parsed) ==
            IF \/ parsed.threw
               \/ parsed.value.kind # "array"
               \/ \E i \in 1..Len(parsed.value.items) :
                     validate(aSchema, parsed.value.items[i]).threw
            THEN [threw |-> FALSE, value |-> FALSE, store |-> store]
            ELSE [threw |-> FALSE, value |-> TRUE, store |-> parsed.value.items]
    IN  Use(JSONparse(jsonString))

\* item[field] === value, for a value the caller wrote: two primitives of the
\* same type and text; an array or an object is never the caller's value.
StrictEquals(x, value) ==
    x.t = value.t /\ x.t \notin {"array", "object"} /\ x.s = value.s

\* The test of the filter of search.
SearchTest(item, field, value) ==
    IF Get(item, field).t = "array"
    THEN \E i \in 1..Len(Get(item, field).a) :
            Get(item, field).a[i].t = value.t /\ Get(item, field).a[i].s = value.s
    ELSE StrictEquals(Get(item, field), value)

\* A variant of search without the test of the elements of an array.
searchExact(store, field, value) ==
    SelectSeq(store, LAMBDA item : StrictEquals(Get(item, field), value))

\* search(field, value)
search(store, field, value) ==
    SelectSeq(store, LAMBDA item : SearchTest(item, field, value))

\* getByZone(zone): [threw, value]; toLowerCase of a zone that is no string raises.
getByZone(store, zone) ==
    IF zone.t # "string" THEN [threw |-> TRUE, value |-> <<>>]
    ELSE [threw |-> FALSE, value |-> search(store, "zone", Str(toLowerCase(zone.s)))]

\* A variant of clear that keeps the first record.
clearAllButFirst(store) == IF store = <<>> THEN <<>> ELSE <<Head(store)>>

clear(store) == <<>>

(***************************************************************************)
(* The arguments the calls are made with                                   *)
(***************************************************************************)

Version(major) == Str(<<major, ".", "0", ".", "0">>)

\* A valid title, author and zone (to be normalized), and nothing else.
InputPlain ==
    Obj([title |-> Str(<<" ", "X", " ">>), author |-> Str(<<"A">>),
         zone |-> Str(<<" ", "Z", " ">>)])

\* The same title and author, another zone, and a version.
InputVersioned ==
    Obj([title |-> Str(<<"X">>), author |-> Str(<<"A", " ">>), zone |-> Str(<<"q">>),
         version |-> Version("0")])

\* Every field given: several authors, a created_at that is not in toISOString's
\* form and an updated_at that is later than every time of the clock.
InputFull ==
    Obj([title |-> Str(<<"Y">>), author |-> StrArr(<<<<"A">>, <<" ", "A">>, <<"B">>>>),
         zone |-> Str(<<"z">>), created_at |-> Str(<<"D", "1">>),
         updated_at |-> Str(<<"T", "9">>), version |-> Version("1")])

\* Every value given is refused.
InputRefused ==
    Obj([title |-> Str(<<" ">>), author |-> Arr(<<>>), zone |-> Num(<<"5">>),
         created_at |-> Str(<<"n", "o">>), version |-> Str(<<"v", "1">>)])

\* Inputs of addMetadata and createMetadata.
Inputs ==
    {NoObject, NullObject, Obj(<<>>), InputPlain, InputVersioned, InputFull, InputRefused}

\* Inputs that differ in the author: strings and lists to be trimmed, with
\* blank and repeated names, the list of example2 among them.
AuthorInputs ==
    {Obj([title |-> Str(<<"T">>), author |-> author, zone |-> Str(<<"z">>)]) :
        author \in {Str(<<" ", "B", " ">>), Str(<<" ">>),
                    StrArr(<<<<"A">>, <<"A">>, <<"B">>>>),
                    StrArr(<<<<"B", " ">>, <<"A">>, <<" ">>, <<" ", "B">>>>),
                    StrArr(<<<<" ">>>>)}}

\* Contexts: none, null, a category, tags only, and a category that is no string.
Contexts ==
    {NoObject, NullObject,
     Obj([category |-> Str(<<"A", "I">>), tags |-> StrArr(<<<<"M", "L">>>>)]),
     Obj([tags |-> StrArr(<<<<"M", "L">>>>)]),
     Obj([category |-> Num(<<"5">>)])}

\* Contexts that differ in what the zone is inferred from: a padded category
\* with tags, a blank category with tags, an empty category with a padded tag,
\* no tag at all, and a blank tag.
ZoneContexts ==
    {Obj([category |-> Str(<<" ", "A", "i", " ">>), tags |-> StrArr(<<<<"M", "L">>>>)]),
     Obj([category |-> Str(<<" ">>), tags |-> StrArr(<<<<"M", "L">>>>)]),
     Obj([category |-> Str(<<>>), tags |-> StrArr(<<<<" ", "M", "l">>, <<"X">>>>)]),
     Obj([tags |-> Arr(<<>>)]),
     Obj([tags |-> StrArr(<<<<" ">>>>)])}

\* Updates that hold only a valid title, a valid version, or both.
TitleVersionUpdates ==
    {Obj([title |-> Str(<<"N", " ">>), version |-> Version("2")]),
     Obj([title |-> Str(<<"N">>)])}

\* Updates of updateMetadata: those, a version that is refused, a title that is
\* no string, and timestamps of the caller.
Updates ==
    TitleVersionUpdates \cup
    {Obj([version |-> Str(<<"v", "2">>)]),
     Obj([title |-> Num(<<"5">>)]),
     Obj([updated_at |-> Str(<<"T", "0">>), created_at |-> Str(<<"D", "0">>)])}

\* A valid entry of an imported list whose values are not normalized.
EntryRaw ==
    Obj([title |-> Str(<<"X">>), author |-> Str(<<"A">>), zone |-> Str(<<"Z">>),
         created_at |-> Str(<<"D", "1">>), updated_at |-> Str(<<"T", "9">>)])

\* Entries of imported lists: that one, one with required fields missing, one
\* whose title is a number, and null.
ImportEntries ==
    {EntryRaw,
     Obj([title |-> Str(<<"X">>)]),
     Obj([title |-> Num(<<"5">>), author |-> Str(<<"A">>), zone |-> Str(<<"z">>)]),
     NullObject}

ImportLists ==
    {<<>>} \cup {<<e>> : e \in ImportEntries}
           \cup {<<e1, e2>> : e1 \in ImportEntries, e2 \in ImportEntries}

\* The JSON text of a list.
ListText(list) ==
    [wellFormed |-> TRUE, indent |-> 0, value |-> [kind |-> "array", items |-> list]]

\* Texts given to importJSON: lists, an object, and a text that is no JSON.
JSONTexts ==
    {ListText(l) : l \in ImportLists}
    \cup {[wellFormed |-> TRUE, indent |-> 0, value |-> [kind |-> "object", items |-> <<>>]],
          [wellFormed |-> FALSE, indent |-> 0, value |-> [kind |-> "undefined", items |-> <<>>]]}

\* A field that a record has not.
Absent == [t |-> "absent", s |-> <<>>, a |-> <<>>]

\* The record that has, of six keys, those whose value is not Absent.
RecordOf(title, author, zone, created_at, version, envelope) ==
    LET given == [title |-> title, author |-> author, zone |-> zone,
                  created_at |-> created_at, version |-> version,
                  _metadata |-> envelope]
    IN  Obj([key \in {k \in DOMAIN given : given[k] # Absent} |-> given[key]])

\* Records given to validate and normalize: every field absent, well formed,
\* not normalized, refused by its validate function, or of another type (a
\* number, null, undefined as createMetadata leaves it), with or without the
\* envelope of createMetadata.
Records ==
    {RecordOf(title, author, zone, created_at, version, envelope) :
        title \in {Absent, Null, Str(<<"X">>), Str(<<" ", " ", "x">>), Str(<<" ">>), Num(<<"5">>)},
        author \in {Absent, Str(<<"A", " ">>), StrArr(<<<<"A">>, <<" ", "A">>, <<"B">>>>),
                    StrArr(<<<<" ">>>>), Num(<<"5">>)},
        zone \in {Absent, Str(<<"z">>), Str(<<" ", "Z">>), Bool(TRUE)},
        created_at \in {Absent, Undefined, Str(<<"T", "1">>), Str(<<"D", "1">>),
                        Str(<<"n", "o">>)},
        version \in {Absent, Version("1"), Str(<<" ", "1", ".", "0", ".", "0">>),
                     Str(<<"v", "1">>)},
        envelope \in {Absent, Envelope(0, FALSE, TRUE)}}

\* Values searched for: names, zones in both cases, a title, and undefined.
SearchValues ==
    {Str(<<"A">>), Str(<<"B">>), Str(<<"z">>), Str(<<"Z">>), Str(<<"q">>), Str(<<"N">>),
     Undefined}

\* Fields searched.
SearchFields == {"title", "author", "zone", "version"}

\* Zones asked of getByZone.
ZoneQueries == {<<"z">>, <<"Z">>, <<"q">>, <<"Q">>, <<"g", "e", "n", "e", "r", "a", "l">>}

\* A schema of the caller: the built-in one, but the default of title is the
\* empty string, which the validate function of title refuses.
SchemaBlankTitle == [MetadataSchema EXCEPT !.rules.title.default = Str(<<>>)]

\* The schemas a manager is constructed with.
Schemas == {MetadataSchema, SchemaBlankTitle}

(***************************************************************************)
(* The state machine.  A call is made when no call is pending; it leaves   *)
(* in call, ret and pre what was called, what came back and the store as   *)
(* it was, and the caller then takes the result (Return).                  *)
(***************************************************************************)

Idle == [name |-> "idle"]

NoResult == [threw |-> FALSE, value |-> NoObject]

\* new MetadataManager(s), and the clock at its first instant.
Constructed(s) ==
    /\ schema = s
    /\ metadataStore = <<>>
    /\ errors = <<>>
    /\ warnings = <<>>
    /\ clock = 0
    /\ call = Idle
    /\ ret = NoResult
    /\ pre = <<>>
    /\ newStore = <<>>

\* No database manager is connected.
Disconnected == [backend |-> "none", users |-> <<>>, profiles |-> <<>>, lastId |-> 0]

\* The reader page is not open: reader.js has not run.
NotOpen == [page |-> "closed"]

\* new MetadataManager(): the schema is MetadataSchema.
Init == Constructed(MetadataSchema) /\ database = Disconnected /\ reader = NotOpen

\* new MetadataManager(s) with the built-in schema or a schema of the caller.
InitSchema == \E s \in Schemas : Constructed(s) /\ database = Disconnected /\ reader = NotOpen

\* Time passes between two calls.
Tick ==
    /\ call = Idle
    /\ clock < MaxClock
    /\ clock' = clock + 1
    /\ UNCHANGED <<reader, database, schema, metadataStore, errors, warnings, call, ret, pre, newStore>>

\* The caller takes the result of the call; the second manager of the
\* export/import example is dropped with it.
Return ==
    /\ call # Idle
    /\ call' = Idle
    /\ ret' = NoResult
    /\ pre' = <<>>
    /\ newStore' = <<>>
    /\ UNCHANGED <<reader, database, schema, metadataStore, errors, warnings, clock>>

\* processor.createMetadata(input, context); call keeps the lists of the
\* processor as they were before the call.
CreateMetadata(input, context) ==
    LET Do(r) ==
            /\ call = Idle
            /\ call' = [name |-> "createMetadata", input |-> input, context |-> context,
                        now |-> clock, errors |-> errors, warnings |-> warnings]
            /\ ret' = [threw |-> FALSE, value |-> r.metadata]
            /\ errors' = r.errors
            /\ warnings' = r.warnings
            /\ pre' = metadataStore
            /\ UNCHANGED <<reader, database, schema, metadataStore, clock, newStore>>
    IN  Do(createMetadata(schema, input, context, clock))

\* manager.addMetadata(input, context)
AddMetadata(input, context) ==
    LET Do(r) ==
            /\ call = Idle
            /\ call' = [name |-> "addMetadata", input |-> input, context |-> context,
                        now |-> clock]
            /\ ret' = [threw |-> r.threw, value |-> r.value]
            /\ metadataStore' = r.store
            /\ errors' = r.errors
            /\ warnings' = r.warnings
            /\ pre' = metadataStore
            /\ UNCHANGED <<reader, database, schema, clock, newStore>>
    IN  Do(addMetadata(schema, metadataStore, input, context, clock))

\* manager.updateMetadata(index, updates)
UpdateMetadata(index, updates) ==
    LET Do(r) ==
            /\ call = Idle
            /\ call' = [name |-> "updateMetadata", index |-> index, updates |-> updates,
                        now |-> clock]
            /\ ret' = [threw |-> r.threw, value |-> r.value]
            /\ metadataStore' = r.store
            /\ pre' = metadataStore
            /\ UNCHANGED <<reader, database, schema, errors, warnings, clock, newStore>>
    IN  Do(updateMetadata(schema, metadataStore, index, updates, clock))

\* manager.deduplicate()
Deduplicate ==
    /\ call = Idle
    /\ call' = [name |-> "deduplicate"]
    /\ ret' = NoResult
    /\ metadataStore' = deduplicate(metadataStore)
    /\ pre' = metadataStore
    /\ UNCHANGED <<reader, database, schema, errors, warnings, clock, newStore>>

\* manager.importJSON(jsonString)
ImportJSON(jsonString) ==
    LET Do(r) ==
            /\ call = Idle
            /\ call' = [name |-> "importJSON", jsonString |-> jsonString]
            /\ ret' = [threw |-> r.threw, value |-> r.value]
            /\ metadataStore' = r.store
            /\ pre' = metadataStore
            /\ UNCHANGED <<reader, database, schema, errors, warnings, clock, newStore>>
    IN  Do(importJSON(schema, metadataStore, jsonString))

\* The export/import example: jsonString = manager.exportJSON(pretty), then
\* newManager = new MetadataManager() and newManager.importJSON(jsonString).
ExportImport(pretty) ==
    LET Do(r) ==
            /\ call = Idle
            /\ call' = [name |-> "exportImport", pretty |-> pretty]
            /\ ret' = [threw |-> r.threw, value |-> r.value]
            /\ newStore' = r.store
            /\ pre' = metadataStore
            /\ UNCHANGED <<reader, database, schema, metadataStore, errors, warnings, clock>>
    IN  Do(importJSON(MetadataSchema, <<>>, exportJSON(metadataStore, pretty)))

\* manager.clear()
Clear ==
    /\ call = Idle
    /\ call' = [name |-> "clear"]
    /\ ret' = NoResult
    /\ metadataStore' = clear(metadataStore)
    /\ pre' = metadataStore
    /\ UNCHANGED <<reader, database, schema, errors, warnings, clock, newStore>>

\* The calls made on a processor alone.
NextProcessor ==
    \/ Tick
    \/ Return
    \/ \E input \in Inputs \cup AuthorInputs, context \in Contexts \cup ZoneContexts :
          CreateMetadata(input, context)

SpecProcessor == Init /\ [][NextProcessor]_vars

\* A manager that entries are added to, with every input and context.
NextAdd ==
    \/ Tick
    \/ Return
    \/ \E input \in Inputs, context \in Contexts :
          Len(metadataStore) < MaxStore /\ AddMetadata(input, context)
    \/ Clear

SpecAdd == InitSchema /\ [][NextAdd]_vars

\* A manager whose entries (added, or imported) are updated as time passes.
NextUpdate ==
    \/ Tick
    \/ Return
    \/ \E input \in {InputPlain, InputVersioned, InputFull} :
          Len(metadataStore) < MaxUpdateStore /\ AddMetadata(input, NoObject)
    \/ ImportJSON(ListText(<<EntryRaw>>))
    \/ \E index \in (0 - 1)..MaxUpdateStore, updates \in Updates :
          UpdateMetadata(index, updates)

SpecUpdate == Init /\ [][NextUpdate]_vars

\* A manager that lists are imported into, and whose store is exported and
\* imported into a second manager.
NextImport ==
    \/ Return
    \/ \E input \in {InputPlain, InputFull} :
          Len(metadataStore) < MaxStore /\ AddMetadata(input, NoObject)
    \/ \E jsonString \in JSONTexts : ImportJSON(jsonString)
    \/ \E pretty \in BOOLEAN : ExportImport(pretty)

SpecImport == Init /\ [][NextImport]_vars

\* A manager whose store is deduplicated.
NextDedup ==
    \/ Return
    \/ \E input \in {Obj(<<>>), InputPlain, InputVersioned, InputFull} :
          Len(metadataStore) < MaxDedupStore /\ AddMetadata(input, NoObject)
    \/ \E list \in {<<EntryRaw>>, <<Obj([title |-> Str(<<"X">>)]), EntryRaw>>} :
          ImportJSON(ListText(list))
    \/ Deduplicate

SpecDedup == Init /\ [][NextDedup]_vars

\* processor.validate(metadata); argument is the record of the caller as the
\* call leaves it.
Validate(metadata) ==
    LET Do(r) ==
            /\ call = Idle
            /\ call' = [name |-> "validate", metadata |-> metadata]
            /\ ret' = [threw |-> r.threw,
                       value |-> [valid |-> r.valid, errors |-> r.errors],
                       argument |-> metadata]
            /\ pre' = metadataStore
            /\ UNCHANGED <<reader, database, schema, metadataStore, errors, warnings, clock, newStore>>
    IN  Do(validate(schema, metadata))

\* processor.normalize(metadata)
Normalize(metadata) ==
    LET Do(r) ==
            /\ call = Idle
            /\ call' = [name |-> "normalize", metadata |-> metadata, again |-> FALSE,
                        original |-> metadata]
            /\ ret' = [threw |-> r.threw, value |-> r.value, argument |-> metadata]
            /\ UNCHANGED <<reader, database, schema, metadataStore, errors, warnings, clock, pre, newStore>>
    IN  Do(normalize(schema, metadata))

\* processor.normalize(normalized), normalized being what normalize returned for
\* the record original.
NormalizeAgain ==
    LET Do(r) ==
            /\ call.name = "normalize"
            /\ ~call.again
            /\ ~ret.threw
            /\ call' = [name |-> "normalize", metadata |-> ret.value, again |-> TRUE,
                        original |-> call.metadata]
            /\ ret' = [threw |-> r.threw, value |-> r.value, argument |-> ret.value]
            /\ UNCHANGED <<reader, database, schema, metadataStore, errors, warnings, clock, pre, newStore>>
    IN  Do(normalize(schema, ret.value))

\* manager.search(field, value)
Search(field, value) ==
    /\ call = Idle
    /\ call' = [name |-> "search", field |-> field, value |-> value]
    /\ ret' = [threw |-> FALSE, value |-> search(metadataStore, field, value)]
    /\ pre' = metadataStore
    /\ UNCHANGED <<reader, database, schema, metadataStore, errors, warnings, clock, newStore>>

\* manager.getByZone(zone)
GetByZone(zone) ==
    LET Do(r) ==
            /\ call = Idle
            /\ call' = [name |-> "getByZone", zone |-> zone]
            /\ ret' = [threw |-> r.threw, value |-> r.value]
            /\ pre' = metadataStore
            /\ UNCHANGED <<reader, database, schema, metadataStore, errors, warnings, clock, newStore>>
    IN  Do(getByZone(metadataStore, Str(zone)))

\* A manager whose store, built by every method that changes it, is searched.
NextSearch ==
    \/ Return
    \/ \E input \in {InputPlain, InputVersioned, InputFull} :
          Len(metadataStore) < MaxStore /\ AddMetadata(input, NoObject)
    \/ \E list \in {<<EntryRaw>>, <<InputFull, EntryRaw>>} : ImportJSON(ListText(list))
    \/ \E index \in 0..(MaxStore - 1) : UpdateMetadata(index, Obj([title |-> Str(<<"N">>)]))
    \/ Deduplicate
    \/ Clear
    \/ \E field \in SearchFields, value \in SearchValues : Search(field, value)
    \/ \E zone \in ZoneQueries : GetByZone(zone)

SpecSearch == Init /\ [][NextSearch]_vars

\* A processor that validates and normalizes records of the caller.
NextRecords ==
    \/ Return
    \/ \E metadata \in Records : Validate(metadata)
    \/ \E metadata \in Records : Normalize(metadata)
    \/ NormalizeAgain

SpecRecords == Init /\ [][NextRecords]_vars

(***************************************************************************)
(* Properties.  Each is stated on the state a call leaves: call holds the  *)
(* call and its arguments, pre the store before it, ret its result.        *)
(***************************************************************************)

\* C1: addMetadata either raises and leaves the store exactly as it was, or
\* appends exactly one record at the end of the store (the length grows by one,
\* the earlier entries are unchanged and in the same order) and returns that
\* appended record, which passes validate.
AddAppendsOrRaises ==
    call.name = "addMetadata" =>
        \/ ret.threw /\ metadataStore = pre
        \/ /\ ~ret.threw
           /\ Len(metadataStore) = Len(pre) + 1
           /\ SubSeq(metadataStore, 1, Len(pre)) = pre
           /\ metadataStore[Len(metadataStore)] = ret.value
           /\ ~validate(schema, ret.value).threw
           /\ validate(schema, ret.value).valid

\* addMetadata has raised on a store that holds an entry.
AddRaisedOnStore ==
    call.name = "addMetadata" /\ ret.threw /\ pre # <<>>

\* The records addMetadata stores, under the built-in schema, for the inputs
\* that give a valid title, author and zone and no created_at or updated_at.
AddedWithoutTimestamps ==
    {createMetadata(MetadataSchema, input, NoObject, now).metadata :
        input \in {InputPlain, InputVersioned}, now \in 0..MaxClock}

\* updateMetadata was called with an index in range on such a record, and with
\* updates that hold only a valid title, or a valid title and version.
UpdateOfAdded ==
    /\ call.name = "updateMetadata"
    /\ call.index \in 0..(Len(pre) - 1)
    /\ call.updates \in TitleVersionUpdates
    /\ pre[call.index + 1] \in AddedWithoutTimestamps

\* C2: updateMetadata on a record stored by addMetadata from an input with a
\* valid title, author and zone and no created_at or updated_at, with an index in
\* range and updates that hold only a valid title and/or version, does not
\* raise; it returns the merged record in normalized form (the title and version
\* of the updates, the stored author and zone), and the store holds that record
\* at the index afterwards.
UpdateOfAddedSucceeds ==
    UpdateOfAdded =>
        /\ ~ret.threw
        /\ metadataStore[call.index + 1] = ret.value
        /\ Get(ret.value, "title") = title_normalize(Get(call.updates, "title")).value
        /\ "version" \in Keys(call.updates) =>
               Get(ret.value, "version") = Get(call.updates, "version")
        /\ \A field \in {"author", "zone"} :
               Get(ret.value, field) = Get(pre[call.index + 1], field)

\* Such an update has raised.
UpdateOfAddedRaised ==
    UpdateOfAdded /\ ret.threw

\* C3: whenever updateMetadata raises (the index is out of range, the merged
\* record fails validation, or a normalize function raises), the store is left
\* exactly as it was before the call: the same length, and every slot, the one
\* at index too, holds the record it held.
UpdateRaisedStoreUntouched ==
    (call.name = "updateMetadata" /\ ret.threw) =>
        /\ Len(metadataStore) = Len(pre)
        /\ \A i \in 1..Len(pre) : metadataStore[i] = pre[i]

\* updateMetadata has raised for an index in range whose merged record was
\* normalized and then failed validation.
UpdateRaisedInRange ==
    /\ call.name = "updateMetadata"
    /\ ret.threw
    /\ call.index \in 0..(Len(pre) - 1)
    /\ call.updates = Obj([version |-> Str(<<"v", "2">>)])
    /\ "created_at" \in Keys(pre[call.index + 1])
    /\ Get(pre[call.index + 1], "created_at").t = "string"

\* importJSON was given a JSON text whose top-level value is a list.
ImportOfList ==
    /\ call.name = "importJSON"
    /\ call.jsonString.wellFormed
    /\ call.jsonString.value.kind = "array"

\* C4: for any JSON text whose top-level value is a list, importJSON returns
\* true and the store is afterwards exactly the parsed list, whether or not its
\* elements pass validate (elements that are null, or whose values have the
\* wrong type, too).
ImportListReplacesStore ==
    ImportOfList =>
        /\ ret.value = TRUE
        /\ metadataStore = call.jsonString.value.items

\* importJSON has returned false for a list that holds null or an entry whose
\* title is a number.
ImportListRefused ==
    /\ ImportOfList
    /\ ret.value = FALSE
    /\ \E i \in 1..Len(call.jsonString.value.items) :
          \/ call.jsonString.value.items[i] = NullObject
          \/ Get(call.jsonString.value.items[i], "title").t = "number"

\* C5: importJSON never raises; when the text does not parse as JSON or its
\* top-level value is not a list, it returns false and the store is unchanged.
ImportNeverRaises ==
    call.name = "importJSON" =>
        /\ ~ret.threw
        /\ ret.value \in BOOLEAN
        /\ (~call.jsonString.wellFormed \/ call.jsonString.value.kind # "array") =>
               (ret.value = FALSE /\ metadataStore = pre)

\* importJSON has returned false, on a store that holds entries, for a text
\* that parses and is not a list.
ImportOfNonList ==
    /\ call.name = "importJSON"
    /\ call.jsonString.wellFormed
    /\ call.jsonString.value.kind # "array"
    /\ ret.value = FALSE
    /\ pre # <<>>

\* The records addMetadata stores where the store is exported.
AddedRecords ==
    {createMetadata(MetadataSchema, input, NoObject, 0).metadata :
        input \in {InputPlain, InputFull}}

\* The store was exported and imported into a fresh manager, every record of
\* the store having been added through addMetadata.
RoundTripOfAdded ==
    /\ call.name = "exportImport"
    /\ pre # <<>>
    /\ \A i \in 1..Len(pre) : pre[i] \in AddedRecords

\* C6: round trip: for a manager whose store holds N records all added through
\* addMetadata, importing exportJSON(false) or exportJSON(true) into a fresh
\* manager returns true and yields a store of the same N records, equal record
\* by record and in the same order.
RoundTripEqual ==
    RoundTripOfAdded =>
        /\ ret.value = TRUE
        /\ newStore = pre

\* A round trip has yielded a record that has not the keys of the record
\* exported.
RoundTripLostKeys ==
    /\ RoundTripOfAdded
    /\ ret.value = TRUE
    /\ Len(newStore) = Len(pre)
    /\ \E i \in 1..Len(pre) : Keys(newStore[i]) # Keys(pre[i])

\* The two parts of the key the property speaks of: the title, as the text it
\* has in the key, and the serialized author.
TitleAndAuthor(item) ==
    <<StringOf(Get(item, "title")), StringifyChars(Get(item, "author"))>>

\* The places of list that hold the first record of their key.
FirstPlaces(list) ==
    {i \in 1..Len(list) :
        \A j \in 1..(i - 1) : TitleAndAuthor(list[j]) # TitleAndAuthor(list[i])}

\* The k-th smallest element of a set of numbers.
Nth(places, k) ==
    CHOOSE i \in places : Cardinality({j \in places : j < i}) = k - 1

\* C7: after deduplicate the store is the subsequence of the previous store
\* made of the first record of each distinct key (title, serialized author), in
\* the original relative order: no two remaining records share a key, every key
\* present before is still present, and records that differ only in other
\* fields are collapsed into the first one.
DeduplicateKeepsFirsts ==
    call.name = "deduplicate" =>
        /\ Len(metadataStore) = Cardinality(FirstPlaces(pre))
        /\ \A k \in 1..Len(metadataStore) :
               metadataStore[k] = pre[Nth(FirstPlaces(pre), k)]
        /\ \A k \in 1..Len(metadataStore), l \in 1..Len(metadataStore) :
               k # l => TitleAndAuthor(metadataStore[k]) # TitleAndAuthor(metadataStore[l])
        /\ \A i \in 1..Len(pre) : \E k \in 1..Len(metadataStore) :
               TitleAndAuthor(metadataStore[k]) = TitleAndAuthor(pre[i])

\* deduplicate has dropped a record that had the title and author of an earlier
\* one and another zone, and has kept a later record of another key.
DeduplicateCollapsed ==
    /\ call.name = "deduplicate"
    /\ Len(metadataStore) >= 2
    /\ \E i \in 1..Len(pre), j \in 1..Len(pre), l \in 1..Len(pre) :
          /\ i < j /\ j < l
          /\ TitleAndAuthor(pre[i]) = TitleAndAuthor(pre[j])
          /\ Get(pre[i], "zone") # Get(pre[j], "zone")
          /\ TitleAndAuthor(pre[l]) # TitleAndAuthor(pre[i])
          /\ metadataStore = <<pre[i], pre[l]>>

\* updateMetadata has succeeded.
Updated ==
    call.name = "updateMetadata" /\ ~ret.threw

\* C8, as stated: after a successful updateMetadata(i, updates) the record at i
\* has updated_at equal to the time of the update, overriding any updated_at of
\* the updates, which is greater than or equal to the previous updated_at of the
\* record; and when updates does not name created_at, the created_at of the
\* record is the same as before the update.
UpdateStampsAsStated ==
    Updated =>
        /\ Get(metadataStore[call.index + 1], "updated_at") = Str(toISOString(call.now))
        /\ Get(pre[call.index + 1], "updated_at").t = "string" =>
               DateOf(Get(metadataStore[call.index + 1], "updated_at"))
                   >= DateOf(Get(pre[call.index + 1], "updated_at"))
        /\ "created_at" \notin Keys(call.updates) =>
               Get(metadataStore[call.index + 1], "created_at")
                   = Get(pre[call.index + 1], "created_at")

\* C8, amended: after a successful updateMetadata(i, updates) the record at i has
\* updated_at equal to the time of the update, overriding any updated_at of the
\* updates; it is greater than or equal to the previous updated_at unless that
\* one was later than the time of the update; and when updates does not name
\* created_at, the created_at of the record is the instant it was before, written
\* as toISOString writes it (the same string when it was written so already).
UpdateStamps ==
    Updated =>
        /\ Get(metadataStore[call.index + 1], "updated_at") = Str(toISOString(call.now))
        /\ (/\ Get(pre[call.index + 1], "updated_at").t = "string"
            /\ DateOf(Get(pre[call.index + 1], "updated_at")) <= call.now) =>
               DateOf(Get(metadataStore[call.index + 1], "updated_at"))
                   >= DateOf(Get(pre[call.index + 1], "updated_at"))
        /\ "created_at" \notin Keys(call.updates) =>
               /\ Get(metadataStore[call.index + 1], "created_at")
                     = Str(toISOString(DateOf(Get(pre[call.index + 1], "created_at"))))
               /\ DateOf(Get(metadataStore[call.index + 1], "created_at"))
                     = DateOf(Get(pre[call.index + 1], "created_at"))

\* updateMetadata has succeeded, after the clock has advanced, with updates
\* that give an updated_at of their own.
UpdatedWithOwnStamp ==
    /\ Updated
    /\ call.now > 0
    /\ "updated_at" \in Keys(call.updates)
    /\ Get(call.updates, "updated_at") # Str(toISOString(call.now))

\* createMetadata was called with an input that supplies no created_at,
\* updated_at or version.
CreatedWithoutOptional ==
    /\ call.name = "createMetadata"
    /\ call.input.k # "null"
    /\ Keys(call.input) \cap {"created_at", "updated_at", "version"} = {}

\* C9: createMetadata on an input that supplies no created_at, updated_at or
\* version yields a record in which created_at and updated_at are present and
\* hold the timestamp of the creation, and version is present and equals "1.0.0".
OptionalDefaultsApplied ==
    CreatedWithoutOptional =>
        /\ {"created_at", "updated_at", "version"} \subseteq Keys(ret.value)
        /\ Get(ret.value, "created_at") = Str(toISOString(call.now))
        /\ Get(ret.value, "updated_at") = Str(toISOString(call.now))
        /\ Get(ret.value, "version") = Version("1")

\* createMetadata has returned, for such an input, a record whose created_at,
\* updated_at and version are undefined.
OptionalLeftUndefined ==
    /\ CreatedWithoutOptional
    /\ \A field \in {"created_at", "updated_at", "version"} :
          Get(ret.value, field) = Undefined

\* The required fields of a schema that have a default.
RequiredWithDefault(aSchema) ==
    {field \in SchemaFields(aSchema) :
        aSchema.rules[field].required /\ aSchema.rules[field].default # Undefined}

\* C10: default completeness: for every required field of the built-in schema
\* that has a default (title, author, zone), createMetadata({}) returns a record
\* in which the field is present, and validate of that record reports no error
\* for the field; validate(createMetadata({})).valid is true.
DefaultCompleteness ==
    (call.name = "createMetadata" /\ call.input = Obj(<<>>)) =>
        /\ RequiredWithDefault(schema) = {"title", "author", "zone"}
        /\ \A field \in RequiredWithDefault(schema) :
              /\ field \in Keys(ret.value)
              /\ Get(ret.value, field).t \notin {"undefined", "null"}
              /\ \A i \in 1..Len(validate(schema, ret.value).errors) :
                    validate(schema, ret.value).errors[i].field # field
        /\ ~validate(schema, ret.value).threw
        /\ validate(schema, ret.value).valid

\* createMetadata({}) has returned, without a context, a record whose title,
\* author and zone are the defaults of the schema.
CreatedFromEmpty ==
    /\ call.name = "createMetadata"
    /\ call.input = Obj(<<>>)
    /\ call.context = NoObject
    /\ \A field \in {"title", "author", "zone"} :
          Get(ret.value, field) = MetadataSchema.rules[field].default

\* The processor holds the warning {field, message}.
HasWarning(field, message) ==
    \E i \in 1..Len(warnings) : warnings[i] = [field |-> field, message |-> message]

\* createMetadata was called with an input that is no null and a context whose
\* category, if it has one, is a string (so that the inference does not raise).
CreatedPlainContext ==
    /\ call.name = "createMetadata"
    /\ call.input.k # "null"
    /\ Get(call.context, "category").t \in {"undefined", "string"}

\* C11: for a field that is absent or null in the input of createMetadata, the
\* value is inferred and the warning 'Value inferred from context' recorded
\* exactly when the rule of the field has an infer function and the caller
\* supplied a context; otherwise, if the field is required, the default of the
\* rule is used and the warning 'Required field missing, using default' is
\* recorded; otherwise the field is omitted and no warning is recorded.  In
\* particular createMetadata called without a context never records 'Value
\* inferred from context'.
InferenceOnlyWithContext ==
    CreatedPlainContext =>
        \A field \in SchemaFields(schema) :
            Get(call.input, field).t \in {"undefined", "null"} =>
                IF schema.rules[field].infer # "none" /\ call.context.k = "object"
                THEN /\ HasWarning(field, "Value inferred from context")
                     /\ ~HasWarning(field, "Required field missing, using default")
                ELSE IF schema.rules[field].required
                THEN /\ Get(ret.value, field) = schema.rules[field].default
                     /\ HasWarning(field, "Required field missing, using default")
                     /\ ~HasWarning(field, "Value inferred from context")
                ELSE /\ Get(ret.value, field) = Undefined
                     /\ \A i \in 1..Len(warnings) : warnings[i].field # field

\* createMetadata, called without a context, has recorded 'Value inferred from
\* context' for the zone.
InferredWithoutContext ==
    /\ call.name = "createMetadata"
    /\ call.input.k # "null"
    /\ call.context = NoObject
    /\ HasWarning("zone", "Value inferred from context")

\* Whether a value that is given, inferred or defaulted for a field fails its
\* type check, its normalization or its custom validation.
ValueFails(rules, value) ==
    \/ ~validateType(value, rules.type)
    \/ /\ rules.normalize # "none"
       /\ CallNormalize(rules.normalize, value).threw
    \/ /\ rules.validate # "none"
       /\ LET normalized == IF rules.normalize # "none"
                            THEN CallNormalize(rules.normalize, value).value
                            ELSE value
          IN  \/ CallValidate(rules.validate, normalized).threw
              \/ ~CallValidate(rules.validate, normalized).result

\* Whether the processing of a field fails in the call of createMetadata that
\* call holds: the input cannot be read, the inference raises, or the value
\* given, inferred or defaulted fails.
FieldFails(field) ==
    LET rules == schema.rules[field]
        context == IF call.context.k = "undefined" THEN Obj(<<>>) ELSE call.context
    IN  IF call.input.k = "null" THEN TRUE
        ELSE IF Get(call.input, field).t \notin {"undefined", "null"}
        THEN ValueFails(rules, Get(call.input, field))
        ELSE IF rules.infer # "none" /\ context.k = "object"
        THEN \/ CallInfer(rules.infer, context).threw
             \/ ValueFails(rules, CallInfer(rules.infer, context).value)
        ELSE IF rules.required THEN ValueFails(rules, rules.default)
        ELSE FALSE

\* The places of the error list that name a field.
ErrorPlaces(field) == {i \in 1..Len(errors) : errors[i].field = field}

Offends(field) ==
    LET rules == schema.rules[field]
        value == Get(call.metadata, field)
    IN  IF value.t \in {"undefined", "null"} THEN rules.required
        ELSE \/ ~validateType(value, rules.type)
             \/ /\ rules.validate # "none"
                /\ \/ CallValidate(rules.validate, value).threw
                   \/ ~CallValidate(rules.validate, value).result

\* C13: validate(record) returns a result for every record, whatever the types
\* of its field values, and never raises or modifies the record: valid is false
\* exactly when some schema field is required and absent or null, or present
\* with a value of an undeclared type, or present with a value that fails the
\* validate function of the field; errors holds an entry naming each such field
\* and none naming another (an absent optional field gives no error).
ValidateTotal ==
    call.name = "validate" =>
        /\ ~ret.threw
        /\ ret.argument = call.metadata
        /\ ret.value.valid = ~(\E field \in SchemaFields(schema) : Offends(field))
        /\ \A field \in SchemaFields(schema) :
              Offends(field) <=>
                  \E i \in 1..Len(ret.value.errors) : ret.value.errors[i].field = field

\* validate has raised on a record whose title is a number.
ValidateRaised ==
    /\ call.name = "validate"
    /\ ret.threw
    /\ Get(call.metadata, "title").t = "number"

\* C14: normalize is idempotent under the built-in schema: for every record on
\* which normalize succeeds, normalize of the result succeeds and equals the
\* result, key for key.
NormalizeIdempotent ==
    (call.name = "normalize" /\ call.again) =>
        /\ ~ret.threw
        /\ Keys(ret.value) = Keys(call.metadata)
        /\ \A key \in Keys(call.metadata) : ret.value.f[key] = call.metadata.f[key]

\* normalize has been applied to its own result for a record whose title,
\* author, zone, created_at and version it had all changed.
NormalizedAgain ==
    /\ call.name = "normalize"
    /\ call.again
    /\ ~ret.threw
    /\ \A key \in {"title", "author", "zone", "created_at", "version"} :
          Get(call.original, key) # Get(call.metadata, key)
    /\ Get(call.metadata, "title") = Str(<<"x">>)
    /\ Get(call.metadata, "author") = StrArr(<<<<"A">>, <<"B">>>>)
    /\ Get(call.metadata, "zone") = Str(<<"z">>)
    /\ Get(call.metadata, "created_at") = Str(<<"T", "1">>)
    /\ Get(call.metadata, "version") = Version("1")
    /\ "_metadata" \in Keys(call.metadata)

\* The keys of a schema that have a normalize function.
Normalized(aSchema) ==
    {key \in SchemaFields(aSchema) : aSchema.rules[key].normalize # "none"}

\* C15: normalize(record), when it returns, returns a new record with exactly
\* the keys of its input: every key that is not in the schema (the _metadata
\* envelope for instance) keeps its value, every key the schema has a normalize
\* function for carries the result of that function, and the input record is
\* not modified.
NormalizeKeepsKeys ==
    (call.name = "normalize" /\ ~ret.threw) =>
        /\ Keys(ret.value) = Keys(call.metadata)
        /\ \A key \in Keys(call.metadata) \ Normalized(schema) :
              ret.value.f[key] = call.metadata.f[key]
        /\ \A key \in Keys(call.metadata) \cap Normalized(schema) :
              ret.value.f[key]
                  = CallNormalize(schema.rules[key].normalize, call.metadata.f[key]).value
        /\ ret.argument = call.metadata

\* normalize has returned, for a record with the envelope and values that are
\* not normalized, a record that differs from it.
NormalizedWithEnvelope ==
    /\ call.name = "normalize"
    /\ ~call.again
    /\ ~ret.threw
    /\ "_metadata" \in Keys(call.metadata)
    /\ Get(call.metadata, "zone") = Str(<<" ", "Z">>)
    /\ Get(ret.value, "zone") = Str(<<"z">>)
    /\ Get(call.metadata, "author") = Num(<<"5">>)

\* The trimmed elements of a list author.
TrimmedElems(author) == [i \in 1..Len(author.a) |-> trim(author.a[i].s)]

\* The first place of a name among the trimmed elements.
FirstPlace(names, name) ==
    CHOOSE i \in 1..Len(names) :
        names[i] = name /\ \A j \in 1..(i - 1) : names[j] # name

\* createMetadata was called with an author that is a string, or a list of
\* strings, with a name that is not blank: an author that is stored.
CreatedWithAuthor ==
    /\ call.name = "createMetadata"
    /\ call.input.k = "object"
    /\ \/ /\ Get(call.input, "author").t = "string"
          /\ trim(Get(call.input, "author").s) # <<>>
       \/ /\ Get(call.input, "author").t = "array"
          /\ \A i \in 1..Len(Get(call.input, "author").a) :
                Get(call.input, "author").a[i].t = "string"
          /\ \E i \in 1..Len(Get(call.input, "author").a) :
                trim(Get(call.input, "author").a[i].s) # <<>>

General == Str(<<"g", "e", "n", "e", "r", "a", "l">>)

\* createMetadata was called with an input that has no zone and with a context
\* whose category, if it has one, is a string and whose tags, if it has them,
\* are a list of strings.
ZoneToInfer ==
    /\ call.name = "createMetadata"
    /\ call.input.k # "null"
    /\ Get(call.input, "zone").t \in {"undefined", "null"}
    /\ call.context.k = "object"
    /\ Get(call.context, "category").t \in {"undefined", "string"}
    /\ Get(call.context, "tags").t \in {"undefined", "array"}
    /\ \A i \in 1..Len(Get(call.context, "tags").a) :
          Get(call.context, "tags").a[i].t = "string"

\* A zone supplied in the input is never replaced by an inferred one: the zone
\* of the record is the supplied one, normalized, or the default when the
\* supplied one is refused, and no inference is recorded.
SuppliedZoneKept ==
    (/\ call.name = "createMetadata"
     /\ call.input.k # "null"
     /\ Get(call.input, "zone").t \notin {"undefined", "null"}) =>
        /\ ~HasWarning("zone", "Value inferred from context")
        /\ \/ /\ Get(call.input, "zone").t = "string"
              /\ Get(ret.value, "zone") = Str(toLowerCase(trim(Get(call.input, "zone").s)))
           \/ /\ ErrorPlaces("zone") # {}
              /\ Get(ret.value, "zone") = schema.rules.zone.default

\* C17, as stated: when zone is absent from the input and a context is given,
\* the zone of the record is the lowercased context.category if the context has
\* one, else the lowercased first element of context.tags if there is one, else
\* "general"; a zone supplied in the input is never replaced by an inferred one.
ZoneInferenceAsStated ==
    /\ ZoneToInfer =>
          LET category == Get(call.context, "category")
              tags     == Get(call.context, "tags")
          IN  Get(ret.value, "zone") =
                  IF category.t = "string" THEN Str(toLowerCase(category.s))
                  ELSE IF Len(tags.a) > 0 THEN Str(toLowerCase(tags.a[1].s))
                  ELSE General
    /\ SuppliedZoneKept

\* What the zone is inferred from: the category if it is a string that is not
\* empty, else the first tag if there is one, else nothing.
InferenceSource(context) ==
    IF Get(context, "category").t = "string" /\ Get(context, "category").s # <<>>
    THEN Get(context, "category")
    ELSE IF Len(Get(context, "tags").a) > 0 THEN Get(context, "tags").a[1]
    ELSE Undefined

\* C17, amended: when zone is absent from the input and a context is given, the
\* zone of the record is the trimmed and lowercased context.category if the
\* context has one that is not empty, else the trimmed and lowercased first
\* element of context.tags if there is one, else "general"; it is "general" too
\* when the value so chosen is blank; a zone supplied in the input is never
\* replaced by an inferred one.
ZoneInference ==
    /\ ZoneToInfer =>
          Get(ret.value, "zone") =
              IF InferenceSource(call.context) = Undefined THEN General
              ELSE IF trim(InferenceSource(call.context).s) = <<>> THEN General
              ELSE Str(toLowerCase(trim(InferenceSource(call.context).s)))
    /\ SuppliedZoneKept

\* createMetadata has inferred the zone from a padded category of a context
\* that has tags too.
ZoneFromPaddedCategory ==
    /\ ZoneToInfer
    /\ Get(call.context, "category") = Str(<<" ", "A", "i", " ">>)
    /\ Len(Get(call.context, "tags").a) > 0
    /\ Get(ret.value, "zone") = Str(<<"a", "i">>)
    /\ HasWarning("zone", "Value inferred from context")

\* C18: every record createMetadata returns under the built-in schema has a
\* zone that is a non-empty string, trimmed and lowercased already (zone equals
\* lowercase(trim(zone))), whether the zone was supplied in the input, inferred
\* from the context, or substituted by the default.
ZoneAlwaysNormalized ==
    call.name = "createMetadata" =>
        /\ Get(ret.value, "zone").t = "string"
        /\ Get(ret.value, "zone").s # <<>>
        /\ Get(ret.value, "zone").s = toLowerCase(trim(Get(ret.value, "zone").s))

\* createMetadata has returned the zone "z" for the supplied zone " Z ".
ZoneSuppliedNormalized ==
    /\ call.name = "createMetadata"
    /\ Get(call.input, "zone") = Str(<<" ", "Z", " ">>)
    /\ Get(ret.value, "zone") = Str(<<"z">>)

\* The places of the store whose record has, for the field searched, the value
\* searched or a list that contains it.
SearchHits ==
    {i \in 1..Len(pre) :
        \/ Get(pre[i], call.field) = call.value
        \/ /\ Get(pre[i], call.field).t = "array"
           /\ \E k \in 1..Len(Get(pre[i], call.field).a) :
                 Get(pre[i], call.field).a[k] = [t |-> call.value.t, s |-> call.value.s]}

\* C19: search(field, value) returns, in store order, exactly the stored records
\* whose value for field equals value or is a list that contains value as an
\* element, and no other record; the store is not changed by the call.
SearchReturnsHits ==
    call.name = "search" =>
        /\ ~ret.threw
        /\ Len(ret.value) = Cardinality(SearchHits)
        /\ \A k \in 1..Len(ret.value) : ret.value[k] = pre[Nth(SearchHits, k)]
        /\ metadataStore = pre

\* search('author', 'B') has returned, of two records, the one whose author is a
\* list that contains "B".
SearchFoundInList ==
    /\ call.name = "search"
    /\ call.field = "author"
    /\ call.value = Str(<<"B">>)
    /\ Len(pre) = 2
    /\ Len(ret.value) = 1
    /\ Get(ret.value[1], "author").t = "array"

\* The places of the store whose record has a zone that equals the zone asked
\* when letter case is ignored.
ZoneHits ==
    {i \in 1..Len(pre) :
        /\ Get(pre[i], "zone").t = "string"
        /\ toLowerCase(Get(pre[i], "zone").s) = toLowerCase(call.zone)}

\* C20: getByZone is case-insensitive in every reachable store (built by
\* addMetadata, updateMetadata, importJSON, deduplicate, clear): getByZone(z)
\* returns exactly the stored records whose zone equals z when letter case is
\* ignored, in store order.
GetByZoneIgnoresCase ==
    call.name = "getByZone" =>
        /\ ~ret.threw
        /\ Len(ret.value) = Cardinality(ZoneHits)
        /\ \A k \in 1..Len(ret.value) : ret.value[k] = pre[Nth(ZoneHits, k)]

\* getByZone has not returned an imported record whose zone is the zone asked
\* in upper case.
GetByZoneMissedUpperCase ==
    /\ call.name = "getByZone"
    /\ \E i \in 1..Len(pre) :
          /\ Get(pre[i], "zone") = Str(<<"Z">>)
          /\ toLowerCase(call.zone) = <<"z">>
          /\ \A k \in 1..Len(ret.value) : ret.value[k] # pre[i]

(***************************************************************************)
(* The database layer (schemas.js, mongodb-manager.js, mysql-manager.js).  *)
(*                                                                         *)
(* A manager is connected to one backend.  The users collection (table)    *)
(* maps the identifiers of the users to [email, password_hash, status] and *)
(* the profiles collection maps the identifier of a user to the profile    *)
(* [full_name, bio, avatar_url, zone] of that user; lastId is the last     *)
(* identifier the backend gave out.  Texts are sequences of characters and *)
(* the values of the fields are JavaScript values, as in the metadata      *)
(* engine.  The created_at and updated_at columns are left out.  The       *)
(* calls of one manager are awaited one after the other, as in             *)
(* examples.js, so each call is one step.                                  *)
(***************************************************************************)

active    == <<"a", "c", "t", "i", "v", "e">>
inactive  == <<"i", "n", "a", "c", "t", "i", "v", "e">>
suspended == <<"s", "u", "s", "p", "e", "n", "d", "e", "d">>
general   == <<"g", "e", "n", "e", "r", "a", "l">>

LowerChars == {UpperToLower[c] : c \in DOMAIN UpperToLower}

SpecialChars == {"@", "$", "!", "%", "*", "?", "&"}

StartsWith(s, p) == Len(s) >= Len(p) /\ SubSeq(s, 1, Len(p)) = p

\* /^[^\s@]+@[^\s@]+\.[^\s@]+$/.test(s)
EmailPattern(s) ==
    \E i \in 2..Len(s) :
        /\ s[i] = "@"
        /\ \A j \in 1..Len(s) : s[j] # " " /\ (s[j] = "@" => j = i)
        /\ \E j \in (i + 2)..(Len(s) - 1) : s[j] = "."

\* /^(?=.*[a-z])(?=.*[A-Z])(?=.*\d)(?=.*[@$!%*?&])[A-Za-z\d@$!%*?&]/.test(s)
PasswordPattern(s) ==
    /\ \E i \in 1..Len(s) : s[i] \in LowerChars
    /\ \E i \in 1..Len(s) : s[i] \in DOMAIN UpperToLower
    /\ \E i \in 1..Len(s) : IsDigit(s[i])
    /\ \E i \in 1..Len(s) : s[i] \in SpecialChars
    /\ s[1] \in LowerChars \cup DOMAIN UpperToLower \cup SpecialChars \/ IsDigit(s[1])

\* /^https?:\/\/.+/.test(s)
UrlPattern(s) ==
    \/ StartsWith(s, <<"h", "t", "t", "p", ":", "/", "/">>) /\ Len(s) > 7
    \/ StartsWith(s, <<"h", "t", "t", "p", "s", ":", "/", "/">>) /\ Len(s) > 8

PatternTest(pattern, s) ==
    CASE pattern = "email"    -> EmailPattern(s)
      [] pattern = "password" -> PasswordPattern(s)
      [] pattern = "url"      -> UrlPattern(s)

\* ValidationRules: a pattern is named, an absent length is 0 and an absent
\* enum is empty (the code tests them for truthiness).
ValidationRules ==
    [email      |-> [required |-> TRUE, pattern |-> "email", minLength |-> 0, maxLength |-> 0,
                     enum |-> {}, message |-> "Valid email address is required"],
     password   |-> [required |-> TRUE, pattern |-> "password", minLength |-> 8,
                     maxLength |-> 0, enum |-> {},
                     message |-> "Password must be at least 8 characters with uppercase, lowercase, number, and special character"],
     full_name  |-> [required |-> TRUE, pattern |-> "none", minLength |-> 2, maxLength |-> 100,
                     enum |-> {}, message |-> "Full name must be between 2 and 100 characters"],
     bio        |-> [required |-> FALSE, pattern |-> "none", minLength |-> 0, maxLength |-> 500,
                     enum |-> {}, message |-> "Bio cannot exceed 500 characters"],
     avatar_url |-> [required |-> FALSE, pattern |-> "url", minLength |-> 0, maxLength |-> 0,
                     enum |-> {}, message |-> "Avatar URL must be a valid HTTP/HTTPS URL"],
     zone       |-> [required |-> TRUE, pattern |-> "none", minLength |-> 0, maxLength |-> 0,
                     enum |-> {}, message |-> "Zone is required"],
     status     |-> [required |-> TRUE, pattern |-> "none", minLength |-> 0, maxLength |-> 0,
                     enum |-> {active, inactive, suspended},
                     message |-> "Status must be active, inactive, or suspended"]]

\* The normalize function of a rule; password and status have none.  The
\* callers normalize after validating, so email and full_name are strings.
Rule_normalize(field, value) ==
    CASE field = "email"      -> Str(trim(toLowerCase(value.s)))
      [] field = "full_name"  -> Str(trim(value.s))
      [] field = "bio"        -> IF Truthy(value) THEN Str(trim(value.s)) ELSE Str(<<>>)
      [] field = "avatar_url" -> IF Truthy(value) THEN Str(trim(value.s)) ELSE Null
      [] field = "zone"       -> IF Truthy(value) THEN Str(trim(toLowerCase(value.s)))
                                 ELSE Str(general)
      [] OTHER                -> value

\* !value || value.toString().trim() === ''
IsEmpty(value) == ~Truthy(value) \/ trim(value.s) = <<>>

\* Validator.validate(field, value, rules), for a value that is a string,
\* undefined or null.  An error is the field and the text that follows it,
\* or the message of the rule.
Validator_validate(field, value, rules) ==
    IF rules.required /\ IsEmpty(value)
    THEN [valid |-> FALSE, errors |-> << <<field, "is required">> >>]
    ELSE IF ~rules.required /\ IsEmpty(value)
    THEN [valid |-> TRUE, errors |-> <<>>]
    ELSE LET Result(errs) == [valid |-> errs = <<>>, errors |-> errs]
         IN  Result(
                (IF rules.pattern # "none" /\ ~PatternTest(rules.pattern, value.s)
                 THEN << <<rules.message>> >> ELSE <<>>)
             \o (IF rules.minLength # 0 /\ Len(value.s) < rules.minLength
                 THEN << <<field, "must be at least minLength characters">> >> ELSE <<>>)
             \o (IF rules.maxLength # 0 /\ Len(value.s) > rules.maxLength
                 THEN << <<field, "cannot exceed maxLength characters">> >> ELSE <<>>)
             \o (IF rules.enum # {} /\ value.s \notin rules.enum
                 THEN << <<field, "must be one of: enum">> >> ELSE <<>>))

\* The errors object of validateUser and validateProfile: the fields among
\* checked whose validation failed, each with its errors.
ErrorsOf(data, checked) ==
    LET Failed(failed) ==
            [valid  |-> failed = {},
             errors |-> [f \in failed |->
                            Validator_validate(f, Get(data, f), ValidationRules[f]).errors]]
    IN  Failed({f \in checked : ~Validator_validate(f, Get(data, f), ValidationRules[f]).valid})

\* Validator.validateUser(userData)
validateUser(userData) ==
    ErrorsOf(userData, {"email", "password"}
                       \cup {f \in {"status"} : Truthy(Get(userData, f))})

\* Validator.validateProfile(profileData)
validateProfile(profileData) ==
    ErrorsOf(profileData, {"full_name", "zone"}
                          \cup {f \in {"bio", "avatar_url"} : Truthy(Get(profileData, f))})

\* Validator.normalize(data, ValidationRules)
Validator_normalize(data) ==
    Obj([f \in Keys(data) |-> Rule_normalize(f, data.f[f])])

ProfileFields == {"full_name", "bio", "avatar_url", "zone"}

\* bcrypt.hash and bcrypt.compare: a hash is matched by the password it
\* was made from, and by no other.
bcrypt_hash(password) == <<"#">> \o password

bcrypt_compare(candidate, hash) == hash = bcrypt_hash(candidate)

\* The setters of ProfileSchema, which Mongoose applies to the strings it
\* saves and to the strings of an update: trim, and lowercase for zone.
ProfileSchema_cast(field, value) ==
    IF value.t # "string" THEN value
    ELSE IF field = "zone" THEN Str(trim(toLowerCase(value.s)))
    ELSE Str(trim(value.s))

\* The validators of ProfileSchema, on a value already cast.
ProfileSchema_validate(field, value) ==
    CASE field = "full_name"  -> /\ value.t = "string"
                                 /\ Len(value.s) >= 2
                                 /\ Len(value.s) <= 100
      [] field = "bio"        -> value.t = "string" => Len(value.s) <= 500
      [] field = "avatar_url" -> value.t = "string" /\ value.s # <<>> => UrlPattern(value.s)
      [] field = "zone"       -> value.t = "string" /\ value.s # <<>>

\* The outcome of a call that raised: the database is as it was.
Raise(d, message) == [threw |-> TRUE, error |-> message, value |-> <<>>, db |-> d]

Done(d, value) == [threw |-> FALSE, error |-> "", value |-> value, db |-> d]

\* user.toSafeObject(), and the user row without its password_hash
toSafeObject(id, user) == [id |-> id, email |-> user.email, status |-> user.status]

\* x || y
OrElse(x, y) == IF Truthy(x) THEN x ELSE y

UserWithEmail(d, email) == {id \in DOMAIN d.users : d.users[id].email = email}

\* The rows registerUser writes: the user with the hashed password and the
\* status given or 'active', and the profile with its defaults.
NewUser(normalizedUser) ==
    [email         |-> Get(normalizedUser, "email").s,
     password_hash |-> bcrypt_hash(Get(normalizedUser, "password").s),
     status        |-> OrElse(Get(normalizedUser, "status"), Str(active)).s]

NewProfile(normalizedProfile) ==
    [full_name  |-> Get(normalizedProfile, "full_name"),
     bio        |-> OrElse(Get(normalizedProfile, "bio"), Str(<<>>)),
     avatar_url |-> OrElse(Get(normalizedProfile, "avatar_url"), Null),
     zone       |-> OrElse(Get(normalizedProfile, "zone"), Str(general))]

Inserted(d, user, profile) ==
    [d EXCEPT !.users    = (d.lastId + 1) :> user @@ d.users,
              !.profiles = (d.lastId + 1) :> profile @@ d.profiles,
              !.lastId   = d.lastId + 1]

\* MongoDBManager.registerUser(userData, profileData).  The user is saved
\* in a transaction and the pre-save hook of ProfileSchema looks the user
\* up outside of it: whether the hook sees the user (visible) is up to the
\* deployment.  Mongoose validates the profile before the hook runs.
MongoDB_registerUser(d, userData, profileData, visible) ==
    IF ~validateUser(userData).valid THEN Raise(d, "User validation failed")
    ELSE IF ~validateProfile(profileData).valid THEN Raise(d, "Profile validation failed")
    ELSE LET Save(user, profile) ==
                 IF UserWithEmail(d, user.email) # {} THEN Raise(d, "Email already exists")
                 ELSE IF \E f \in ProfileFields : ~ProfileSchema_validate(f, profile[f])
                 THEN Raise(d, "Profile validation failed: ValidationError")
                 ELSE IF ~visible THEN Raise(d, "User does not exist")
                 ELSE Done(Inserted(d, user, profile),
                           [user    |-> toSafeObject(d.lastId + 1, user),
                            profile |-> profile])
         IN  Save(NewUser(Validator_normalize(userData)),
                  [f \in ProfileFields |->
                      ProfileSchema_cast(f, NewProfile(Validator_normalize(profileData))[f])])

\* MySQLManager.registerUser(userData, profileData)
MySQL_registerUser(d, userData, profileData) ==
    IF ~validateUser(userData).valid THEN Raise(d, "User validation failed")
    ELSE IF ~validateProfile(profileData).valid THEN Raise(d, "Profile validation failed")
    ELSE LET Save(user, profile) ==
                 IF UserWithEmail(d, user.email) # {} THEN Raise(d, "Email already exists")
                 ELSE Done(Inserted(d, user, profile),
                           [user    |-> toSafeObject(d.lastId + 1, user),
                            profile |-> profile])
         IN  Save(NewUser(Validator_normalize(userData)),
                  NewProfile(Validator_normalize(profileData)))

\* authenticateUser(email, password), the same in both managers
authenticateUser(d, email, password) ==
    LET Check(found) ==
            IF found = {} THEN Raise(d, "Invalid credentials")
            ELSE LET id == CHOOSE id \in found : TRUE
                 IN  IF d.users[id].status # active THEN Raise(d, "Account is not active")
                     ELSE IF ~bcrypt_compare(password, d.users[id].password_hash)
                     THEN Raise(d, "Invalid credentials")
                     ELSE Done(d, toSafeObject(id, d.users[id]))
    IN  Check(UserWithEmail(d, toLowerCase(email)))

\* MongoDBManager.updateProfile(userId, updates): findOneAndUpdate casts the
\* fields of updates and, with runValidators, validates them before it
\* writes them.
MongoDB_updateProfileAnyStatus(d, userId, updates) ==
    IF userId \notin DOMAIN d.users THEN Raise(d, "User not found")
    ELSE IF ~validateProfile(updates).valid THEN Raise(d, "Validation failed")
    ELSE IF userId \notin DOMAIN d.profiles THEN Raise(d, "Profile not found")
    ELSE LET Write(profile) == Done([d EXCEPT !.profiles[userId] = profile], profile)
         IN  Write([f \in ProfileFields |->
                       IF f \in Keys(updates) THEN ProfileSchema_cast(f, updates.f[f])
                       ELSE d.profiles[userId][f]])

MongoDB_updateProfile(d, userId, updates) ==
    IF userId \notin DOMAIN d.users THEN Raise(d, "User not found")
    ELSE IF d.users[userId].status # active
    THEN Raise(d, "Cannot update profile for inactive user")
    ELSE IF ~validateProfile(updates).valid THEN Raise(d, "Validation failed")
    ELSE IF \E f \in Keys(updates) \cap ProfileFields :
                ~ProfileSchema_validate(f, ProfileSchema_cast(f, updates.f[f]))
    THEN Raise(d, "Validation failed: ValidationError")
    ELSE IF userId \notin DOMAIN d.profiles THEN Raise(d, "Profile not found")
    ELSE LET Write(profile) == Done([d EXCEPT !.profiles[userId] = profile], profile)
         IN  Write([f \in ProfileFields |->
                       IF f \in Keys(updates) THEN ProfileSchema_cast(f, updates.f[f])
                       ELSE d.profiles[userId][f]])

\* MySQLManager.updateProfile(userId, updates): the fields of updates that
\* are not undefined are written as given, zone in lower case.
MySQL_updateProfile(d, userId, updates) ==
    IF userId \notin DOMAIN d.users THEN Raise(d, "User not found")
    ELSE IF d.users[userId].status # active
    THEN Raise(d, "Cannot update profile for inactive user")
    ELSE IF ~validateProfile(updates).valid THEN Raise(d, "Validation failed")
    ELSE IF \A f \in ProfileFields : Get(updates, f) = Undefined
    THEN Raise(d, "No fields to update")
    ELSE LET Write(profile) == Done([d EXCEPT !.profiles[userId] = profile], profile)
         IN  Write([f \in ProfileFields |->
                       IF Get(updates, f) = Undefined THEN d.profiles[userId][f]
                       ELSE IF f = "zone" THEN Str(toLowerCase(Get(updates, f).s))
                       ELSE Get(updates, f)])

\* updateUserStatus(userId, status), the same in both managers
updateUserStatus(d, userId, status) ==
    IF status \notin {active, inactive, suspended} THEN Raise(d, "Invalid status")
    ELSE IF userId \notin DOMAIN d.users THEN Raise(d, "User not found")
    ELSE Done([d EXCEPT !.users[userId].status = status],
              toSafeObject(userId, [d.users[userId] EXCEPT !.status = status]))

Without(f, id) == [x \in DOMAIN f \ {id} |-> f[x]]

\* MongoDBManager.deleteUser(userId, softDelete)
MongoDB_deleteUser(d, userId, softDelete) ==
    IF userId \notin DOMAIN d.users THEN Raise(d, "User not found")
    ELSE IF softDelete THEN Done([d EXCEPT !.users[userId].status = inactive], TRUE)
    ELSE Done([d EXCEPT !.users = Without(d.users, userId),
                        !.profiles = Without(d.profiles, userId)], TRUE)

\* MySQLManager.deleteUser(userId, softDelete): the soft delete of a user
\* that does not exist updates no row and returns; the foreign key deletes
\* the profile with the user.
MySQL_deleteUser(d, userId, softDelete) ==
    IF softDelete
    THEN IF userId \in DOMAIN d.users
         THEN Done([d EXCEPT !.users[userId].status = inactive], TRUE)
         ELSE Done(d, TRUE)
    ELSE IF userId \notin DOMAIN d.users THEN Raise(d, "User not found")
    ELSE Done([d EXCEPT !.users = Without(d.users, userId),
                        !.profiles = Without(d.profiles, userId)], TRUE)

(***************************************************************************)
(* The calls of the database examples                                      *)
(***************************************************************************)

\* The most users one run registers.
MaxUsers == 2

Backends == {"mongodb", "mysql"}

EmailLower == <<"a", "@", "b", ".", "c">>
EmailUpper == <<"A", "@", "B", ".", "c">>
EmailOther == <<"c", "@", "d", ".", "e">>
EmailWrong == <<"a", "b">>

PasswordGood  == <<"A", "a", "1", "!", "a", "a", "a", "a">>
PasswordShort == <<"A", "a", "1", "!">>

AvatarUrl == <<"h", "t", "t", "p", ":", "/", "/", "x">>

UserDatas ==
    {Obj([email |-> Str(EmailLower), password |-> Str(PasswordGood)]),
     Obj([email |-> Str(EmailUpper), password |-> Str(PasswordGood),
          status |-> Str(inactive)]),
     Obj([email |-> Str(EmailOther), password |-> Str(PasswordGood),
          status |-> Str(active)]),
     Obj([email |-> Str(EmailWrong), password |-> Str(PasswordShort)])}

ProfileDatas ==
    {Obj([full_name |-> Str(<<"J", "o">>), zone |-> Str(<<"T", "e", "c", "h">>)]),
     Obj([full_name |-> Str(<<" ", "J">>), bio |-> Str(<<"B">>), zone |-> Str(general)]),
     Obj([bio |-> Str(<<"B">>)])}

\* Updates that name some of the profile fields, and updates that name
\* full_name and zone.
PartialUpdates ==
    {Obj([bio |-> Str(<<"N", "e", "w">>), avatar_url |-> Str(AvatarUrl)]),
     Obj([bio |-> Str(<<"N", "e", "w">>)])}

ProfileUpdates ==
    PartialUpdates \cup
    {Obj([full_name |-> Str(<<"A", "l">>), zone |-> Str(<<"A", "r", "t", " ">>)]),
     Obj([full_name |-> Str(<<"A", "l">>), bio |-> Str(<<"N", "e", "w">>),
          avatar_url |-> Str(AvatarUrl), zone |-> Str(<<"a", "r", "t">>)]),
     Obj([full_name |-> Str(<<"A", "l">>), avatar_url |-> Str(<<"x">>),
          zone |-> Str(<<"a", "r", "t">>)])}

Statuses == {active, inactive, suspended, <<"d", "e", "l", "e", "t", "e", "d">>}

UserIds == 1..(MaxUsers + 1)

\* new MongoDBManager(...) or new MySQLManager(...), connected to an empty
\* database.
Connected(b) == [backend |-> b, users |-> <<>>, profiles |-> <<>>, lastId |-> 0]

InitDatabase ==
    /\ Constructed(MetadataSchema)
    /\ \E b \in Backends : database = Connected(b)
    /\ reader = NotOpen

\* A call on the database manager: what it returned or raised, and the
\* database as it was in pre.
DatabaseCall(c, r) ==
    /\ call = Idle
    /\ call' = c
    /\ ret' = [threw |-> r.threw, error |-> r.error, value |-> r.value]
    /\ pre' = database
    /\ database' = r.db
    /\ UNCHANGED <<reader, schema, metadataStore, errors, warnings, clock, newStore>>

\* dbManager.registerUser(userData, profileData)
RegisterUser(userData, profileData, visible) ==
    /\ database.lastId < MaxUsers
    /\ DatabaseCall([name |-> "registerUser", userData |-> userData,
                     profileData |-> profileData],
                    IF database.backend = "mongodb"
                    THEN MongoDB_registerUser(database, userData, profileData, visible)
                    ELSE MySQL_registerUser(database, userData, profileData))

\* dbManager.authenticateUser(email, password)
AuthenticateUser(email, password) ==
    DatabaseCall([name |-> "authenticateUser", email |-> email, password |-> password],
                 authenticateUser(database, email, password))

\* dbManager.updateProfile(userId, updates)
UpdateProfile(userId, updates) ==
    DatabaseCall([name |-> "updateProfile", userId |-> userId, updates |-> updates],
                 IF database.backend = "mongodb"
                 THEN MongoDB_updateProfile(database, userId, updates)
                 ELSE MySQL_updateProfile(database, userId, updates))

\* dbManager.updateUserStatus(userId, status)
UpdateUserStatus(userId, status) ==
    DatabaseCall([name |-> "updateUserStatus", userId |-> userId, status |-> status],
                 updateUserStatus(database, userId, status))

\* dbManager.deleteUser(userId, softDelete)
DeleteUser(userId, softDelete) ==
    DatabaseCall([name |-> "deleteUser", userId |-> userId, softDelete |-> softDelete],
                 IF database.backend = "mongodb"
                 THEN MongoDB_deleteUser(database, userId, softDelete)
                 ELSE MySQL_deleteUser(database, userId, softDelete))

NextDatabase ==
    \/ Return
    \/ \E userData \in UserDatas, profileData \in ProfileDatas, visible \in BOOLEAN :
          RegisterUser(userData, profileData, visible)
    \/ \E email \in {EmailLower, EmailUpper, EmailOther},
          password \in {PasswordGood, PasswordShort} :
          AuthenticateUser(email, password)
    \/ \E userId \in UserIds, updates \in ProfileUpdates : UpdateProfile(userId, updates)
    \/ \E userId \in UserIds, status \in Statuses : UpdateUserStatus(userId, status)
    \/ \E userId \in UserIds, softDelete \in BOOLEAN : DeleteUser(userId, softDelete)

SpecDatabase == InitDatabase /\ [][NextDatabase]_vars

(***************************************************************************)
(* Properties of the database layer                                        *)
(***************************************************************************)

\* The call in progress is updateProfile for a user that was active when
\* it started.
UpdateOfActive ==
    /\ call.name = "updateProfile"
    /\ call.userId \in DOMAIN pre.users
    /\ pre.users[call.userId].status = active

\* The updates of the call name some of the profile fields and not all,
\* each with a value its rule accepts.
NamesSomeFields ==
    /\ Keys(call.updates) # {}
    /\ Keys(call.updates) \subseteq ProfileFields
    /\ Keys(call.updates) # ProfileFields
    /\ \A f \in Keys(call.updates) :
          /\ Validator_validate(f, call.updates.f[f], ValidationRules[f]).valid
          /\ ProfileSchema_validate(f, ProfileSchema_cast(f, call.updates.f[f]))

\* The forms in which a manager writes a value given for a field: as it is
\* (MySQL), in lower case (MySQL, zone) or as ProfileSchema casts it.
Written(f, value) ==
    {value, Str(toLowerCase(value.s)), ProfileSchema_cast(f, value)}

\* C21: updateProfile of an active user with updates that name only some
\* of the profile fields, all valid, succeeds; the profile of that user has
\* the named fields as given and the other fields as they were, and
\* nothing else in the database changes.
PartialUpdateSucceeds ==
    UpdateOfActive /\ NamesSomeFields =>
        /\ ~ret.threw
        /\ database.users = pre.users
        /\ DOMAIN database.profiles = DOMAIN pre.profiles
        /\ \A id \in DOMAIN pre.profiles \ {call.userId} :
              database.profiles[id] = pre.profiles[id]
        /\ \A f \in ProfileFields :
              IF f \in Keys(call.updates)
              THEN database.profiles[call.userId][f]
                       \in Written(f, call.updates.f[f])
              ELSE database.profiles[call.userId][f] = pre.profiles[call.userId][f]

\* The update of example 4 (bio and avatar_url) on an active user raised
\* 'Validation failed' and the profile is as it was.
PartialUpdateRaised ==
    /\ UpdateOfActive
    /\ Keys(call.updates) = {"bio", "avatar_url"}
    /\ NamesSomeFields
    /\ ret.threw
    /\ ret.error = "Validation failed"
    /\ database = pre

\* C22: while a call is in progress, (a) updateProfile for a user whose
\* status was not 'active' raised 'Cannot update profile for inactive user'
\* and (b) authenticateUser with the email of such a user raised 'Account
\* is not active', both leaving the database as it was; (c) a soft delete
\* of a user set the status to 'inactive' and kept every profile; (d) a
\* user whose status was not 'active' is active now only through
\* updateUserStatus(userId, 'active'); and (e) for an active user
\* authenticateUser with the password of the registration and updateProfile
\* with valid updates that name full_name and zone succeed.
InactiveUserLocked ==
    call # Idle /\ call.name \in {"registerUser", "authenticateUser", "updateProfile",
                                  "updateUserStatus", "deleteUser"} =>
        /\ call.name = "updateProfile" /\ call.userId \in DOMAIN pre.users =>
              IF pre.users[call.userId].status # active
              THEN /\ ret.threw
                   /\ ret.error = "Cannot update profile for inactive user"
                   /\ database = pre
              ELSE (/\ {"full_name", "zone"} \subseteq Keys(call.updates)
                    /\ \A f \in Keys(call.updates) :
                          /\ Validator_validate(f, call.updates.f[f],
                                                ValidationRules[f]).valid
                          /\ ProfileSchema_validate(f, ProfileSchema_cast(f,
                                                       call.updates.f[f])))
                       => ~ret.threw
        /\ call.name = "authenticateUser" =>
              \A id \in UserWithEmail(pre, toLowerCase(call.email)) :
                 IF pre.users[id].status # active
                 THEN /\ ret.threw
                      /\ ret.error = "Account is not active"
                      /\ database = pre
                 ELSE bcrypt_compare(call.password, pre.users[id].password_hash)
                          => ~ret.threw
        /\ call.name = "deleteUser" /\ call.softDelete /\ call.userId \in DOMAIN pre.users =>
              /\ ~ret.threw
              /\ database.users[call.userId].status = inactive
              /\ database.profiles = pre.profiles
        /\ \A id \in DOMAIN pre.users \cap DOMAIN database.users :
              pre.users[id].status # active /\ database.users[id].status = active =>
                  /\ call.name = "updateUserStatus"
                  /\ call.userId = id
                  /\ call.status = active

\* updateProfile with valid updates that name every field was refused for
\* a user that is inactive and has a profile.
InactiveUpdateRefused ==
    /\ call.name = "updateProfile"
    /\ call.userId \in DOMAIN pre.users
    /\ pre.users[call.userId].status = inactive
    /\ call.userId \in DOMAIN pre.profiles
    /\ Keys(call.updates) = ProfileFields
    /\ validateProfile(call.updates).valid
    /\ ret.threw
    /\ ret.error = "Cannot update profile for inactive user"
    /\ database = pre

(***************************************************************************)
(* Properties of the processor and of the store                            *)
(***************************************************************************)

\* The has_errors and has_warnings flags of the _metadata envelope of a
\* record.
EnvelopeFlags(record) ==
    [has_errors   |-> Get(record, "_metadata").a[3],
     has_warnings |-> Get(record, "_metadata").a[4]]

\* The places of the warning list that name a field.
WarningPlaces(field) == {i \in 1..Len(warnings) : warnings[i].field = field}

\* C23: after a call of createMetadata, whatever the lists held before it,
\* getErrors() and getWarnings() hold the entries of that call alone: they
\* are the lists the call produces from its own arguments, with at most one
\* error and two warnings for a field and no entry for a field that was
\* given and did not fail; the record returned has has_errors true exactly
\* when getErrors() is not empty and has_warnings true exactly when
\* getWarnings() is not empty.
ListsOfLastCall ==
    call.name = "createMetadata" =>
        /\ errors = createMetadata(schema, call.input, call.context, call.now).errors
        /\ warnings = createMetadata(schema, call.input, call.context, call.now).warnings
        /\ \A field \in SchemaFields(schema) :
              /\ Cardinality(ErrorPlaces(field)) = IF FieldFails(field) THEN 1 ELSE 0
              /\ Cardinality(WarningPlaces(field)) <= 2
              /\ (/\ call.input.k = "object"
                  /\ Get(call.input, field).t \notin {"undefined", "null"}
                  /\ ~FieldFails(field)) => WarningPlaces(field) = {}
        /\ \A i \in 1..Len(errors) : errors[i].field \in SchemaFields(schema)
        /\ \A i \in 1..Len(warnings) : warnings[i].field \in SchemaFields(schema)
        /\ EnvelopeFlags(ret.value).has_errors = EBool(errors # <<>>)
        /\ EnvelopeFlags(ret.value).has_warnings = EBool(warnings # <<>>)

\* A call of createMetadata found errors and warnings of an earlier call in
\* the lists and left both lists empty, with both flags false.
ListsEmptiedByCall ==
    /\ call.name = "createMetadata"
    /\ call.errors # <<>>
    /\ call.warnings # <<>>
    /\ errors = <<>>
    /\ warnings = <<>>
    /\ EnvelopeFlags(ret.value).has_errors = EBool(FALSE)
    /\ EnvelopeFlags(ret.value).has_warnings = EBool(FALSE)

(***************************************************************************)
(* Schemas of the caller whose defaults are refused                        *)
(***************************************************************************)

\* Schemas that differ from MetadataSchema in one default, which the
\* validate function of the field refuses.
SchemaBlankAuthor == [MetadataSchema EXCEPT !.rules.author.default = Str(<<>>)]

SchemaBlankZone == [MetadataSchema EXCEPT !.rules.zone.default = Str(<<>>)]

InitDefaults ==
    \E s \in {SchemaBlankTitle, SchemaBlankAuthor, SchemaBlankZone} :
        Constructed(s) /\ database = Disconnected /\ reader = NotOpen

NextDefaults ==
    \/ Return
    \/ \E input \in {Obj(<<>>), NoObject, InputPlain}, context \in Contexts :
          CreateMetadata(input, context)
    \/ \E input \in {Obj(<<>>), NoObject, InputPlain}, context \in Contexts :
          Len(metadataStore) < MaxStore /\ AddMetadata(input, context)

SpecDefaults == InitDefaults /\ [][NextDefaults]_vars

\* A required field of the schema whose default is refused by the validate
\* function of the field.
DefaultRefused(field) ==
    /\ schema.rules[field].required
    /\ schema.rules[field].validate # "none"
    /\ \/ CallValidate(schema.rules[field].validate, schema.rules[field].default).threw
       \/ ~CallValidate(schema.rules[field].validate, schema.rules[field].default).result

\* The call in progress was made with {} and no context.
CalledWithEmpty == call.input = Obj(<<>>) /\ call.context = NoObject

\* What C24 says of one field whose default is refused.
InvalidDefaultOf(field) ==
    /\ call.name = "createMetadata" =>
          /\ ~ret.threw
          /\ Get(ret.value, field) = schema.rules[field].default
          /\ EnvelopeFlags(ret.value).has_errors = EBool(TRUE)
    /\ call.name = "addMetadata" =>
          /\ ret.threw
          /\ metadataStore = pre

\* C24: with a schema in which the default of a required field is refused
\* by the validate function of that field, createMetadata({}) returns a
\* record that holds the default for the field, with has_errors true, and
\* addMetadata({}) raises and leaves the store as it was.
InvalidDefaultKept ==
    call.name \in {"createMetadata", "addMetadata"} /\ CalledWithEmpty =>
        \A field \in SchemaFields(schema) : DefaultRefused(field) => InvalidDefaultOf(field)

\* addMetadata({}) returned and stored a record under a schema whose zone
\* default is refused: the zone of the record is the inferred 'general'.
InferredOverInvalidDefault ==
    /\ call.name = "addMetadata"
    /\ CalledWithEmpty
    /\ DefaultRefused("zone")
    /\ ~ret.threw
    /\ Len(metadataStore) = Len(pre) + 1
    /\ Get(metadataStore[Len(metadataStore)], "zone") = Str(general)
    /\ EnvelopeFlags(ret.value).has_errors = EBool(FALSE)
    /\ HasWarning("zone", "Value inferred from context")

(***************************************************************************)
(* The life of the store                                                   *)
(***************************************************************************)

\* getAllMetadata()
getAllMetadata(store) == store

\* manager.getAllMetadata()
GetAllMetadata ==
    /\ call = Idle
    /\ call' = [name |-> "getAllMetadata"]
    /\ ret' = [threw |-> FALSE, value |-> getAllMetadata(metadataStore)]
    /\ pre' = metadataStore
    /\ UNCHANGED <<reader, database, schema, metadataStore, errors, warnings, clock, newStore>>

\* manager.exportJSON(pretty)
ExportJSON(pretty) ==
    /\ call = Idle
    /\ call' = [name |-> "exportJSON", pretty |-> pretty]
    /\ ret' = [threw |-> FALSE, value |-> exportJSON(metadataStore, pretty)]
    /\ pre' = metadataStore
    /\ UNCHANGED <<reader, database, schema, metadataStore, errors, warnings, clock, newStore>>

\* A manager on which every method is called, and whose processor validates
\* the records of the store.
NextStore ==
    \/ Return
    \/ \E input \in {InputPlain, InputFull, InputRefused}, context \in {NoObject, NullObject} :
          Len(metadataStore) < MaxStore /\ AddMetadata(input, context)
    \/ \E list \in {<<EntryRaw>>, <<InputFull, EntryRaw>>} : ImportJSON(ListText(list))
    \/ \E index \in 0..MaxStore, updates \in {Obj([title |-> Str(<<"N">>)]), Obj(<<>>)} :
          UpdateMetadata(index, updates)
    \/ Deduplicate
    \/ Clear
    \/ \E field \in {"title", "author"}, value \in SearchValues : Search(field, value)
    \/ \E zone \in ZoneQueries : GetByZone(zone)
    \/ \E i \in 1..Len(metadataStore) : Validate(metadataStore[i])
    \/ GetAllMetadata
    \/ \E pretty \in BOOLEAN : ExportJSON(pretty)

SpecStore == Init /\ [][NextStore]_vars

\* The places of pre from which the records of the store are taken, when
\* the store is pre with some records left out.
RECURSIVE Remains(_, _)
Remains(store, before) ==
    IF store = <<>> THEN TRUE
    ELSE IF before = <<>> THEN FALSE
    ELSE IF Head(store) = Head(before) THEN Remains(Tail(store), Tail(before))
    ELSE Remains(store, Tail(before))

\* C25: a successful addMetadata leaves the store one record longer, the
\* records before it as they were; updateMetadata leaves the length and
\* every slot other than the one at index as they were; after deduplicate
\* and clear the store is not longer and its records are records of the
\* store before, in their order and unaltered, and after clear it is empty;
\* validate, search, getByZone, getAllMetadata and exportJSON leave the
\* store as it was.
StoreFrame ==
    /\ call.name = "addMetadata" /\ ~ret.threw =>
          /\ Len(metadataStore) = Len(pre) + 1
          /\ SubSeq(metadataStore, 1, Len(pre)) = pre
    /\ call.name = "updateMetadata" =>
          /\ Len(metadataStore) = Len(pre)
          /\ \A i \in 1..Len(pre) : i # call.index + 1 => metadataStore[i] = pre[i]
    /\ call.name \in {"deduplicate", "clear"} =>
          /\ Len(metadataStore) <= Len(pre)
          /\ Remains(metadataStore, pre)
    /\ call.name = "clear" => metadataStore = <<>>
    /\ call.name \in {"validate", "search", "getByZone", "getAllMetadata", "exportJSON"} =>
          metadataStore = pre

\* C25 with its start: the store of a new manager is empty, and every call
\* keeps to the frame above.
StoreLifecycle == metadataStore = <<>> /\ []StoreFrame

\* An update has replaced the first of two records and left the second.
UpdatedOneSlot ==
    /\ call.name = "updateMetadata"
    /\ ~ret.threw
    /\ Len(pre) = 2
    /\ call.index = 0
    /\ metadataStore[1] # pre[1]
    /\ metadataStore[2] = pre[2]

(***************************************************************************)
(* The built-in schema on inputs and contexts of every kind                *)
(***************************************************************************)

\* The longest store to which the inputs of every kind are added.
MaxWideStore == 2

\* Inputs whose values are of the wrong type, empty or blank.
InputMistyped ==
    Obj([title |-> Num(<<"7">>), author |-> Bool(TRUE), zone |-> Null,
         created_at |-> Num(<<"7">>), updated_at |-> Arr(<<>>), version |-> Num(<<"1">>)])

InputEmptyStrings ==
    Obj([title |-> Str(<<>>), author |-> Str(<<>>), zone |-> Str(<<>>),
         created_at |-> Str(<<>>), version |-> Str(<<>>)])

InputBlank ==
    Obj([title |-> Str(<<" ", " ">>), author |-> Arr(<<ENum(<<"5">>)>>),
         zone |-> Str(<<" ">>), updated_at |-> Str(<<"n", "o">>),
         version |-> Str(<<"1", ".", "0">>)])

WideInputs ==
    Inputs \cup AuthorInputs \cup {InputMistyped, InputEmptyStrings, InputBlank}

\* Contexts whose tags are no list of strings.
WideContexts ==
    Contexts \cup ZoneContexts
    \cup {Obj([tags |-> Arr(<<ENum(<<"5">>)>>)]), Obj([tags |-> Num(<<"5">>)]),
          Obj([category |-> Arr(<<>>), tags |-> StrArr(<<<<"M", "L">>>>)])}

\* addMetadata returns the record createMetadata produced for its input and
\* context.
NextWide ==
    \/ Return
    \/ \E input \in WideInputs, context \in WideContexts :
          Len(metadataStore) < MaxWideStore /\ AddMetadata(input, context)

SpecWide == Init /\ [][NextWide]_vars

\* The messages of the errors validate reports on a record.
ValidateMessages(record) ==
    {validate(schema, record).errors[i].message :
        i \in 1..Len(validate(schema, record).errors)}

\* C26: with the built-in schema addMetadata, whatever the input and the
\* context, returns a record and leaves the store one record longer, the
\* record last; the record is the one createMetadata produces for the
\* input and the context, and validate does not raise on it and does not
\* report 'Required field is missing'.
AddNeverRaises ==
    call.name = "addMetadata" =>
        /\ ~ret.threw
        /\ Len(metadataStore) = Len(pre) + 1
        /\ metadataStore[Len(metadataStore)] = ret.value
        /\ ret.value = createMetadata(schema, call.input, call.context, call.now).metadata
        /\ ~validate(schema, ret.value).threw
        /\ "Required field is missing" \notin ValidateMessages(ret.value)

\* addMetadata has returned a record for an input whose values are all of
\* the wrong type, with a context whose category is no string: every
\* required field has its default.
AddedFromMistyped ==
    /\ call.name = "addMetadata"
    /\ call.input = InputMistyped
    /\ Get(call.context, "category").t = "number"
    /\ ~ret.threw
    /\ metadataStore = <<ret.value>>
    /\ Len(errors) >= 3
    /\ \A field \in {"title", "author", "zone"} :
          Get(ret.value, field) = MetadataSchema.rules[field].default

(***************************************************************************)
(* The validity of the store                                               *)
(***************************************************************************)

\* Updates of one field or two: a title, a zone and an author list to be
\* normalized, and values that are refused before or after the
\* normalization.
UpdatesOfFields ==
    {Obj([title |-> Str(<<"N">>)]),
     Obj([title |-> Num(<<"5">>)]),
     Obj([version |-> Str(<<"v", "2">>)]),
     Obj([title |-> Str(<<" ">>)]),
     Obj([author |-> Arr(<<>>)]),
     Obj([author |-> Num(<<"5">>)]),
     Obj([zone |-> Str(<<" ", "Q", " ">>), author |-> StrArr(<<<<"B", " ">>, <<"B">>>>)])}

\* A manager whose store is built without importJSON.
NextValid ==
    \/ Return
    \/ \E input \in {InputPlain, InputVersioned, InputFull, InputRefused} :
          Len(metadataStore) < MaxStore /\ AddMetadata(input, NoObject)
    \/ \E index \in 0..(MaxStore - 1), updates \in UpdatesOfFields :
          UpdateMetadata(index, updates)
    \/ Deduplicate
    \/ Clear

SpecValid == Init /\ [][NextValid]_vars

\* A value of a field is of a declared type, is what the normalization of
\* the field makes of it, and is accepted by the validate function.
FieldValid(rules, value) ==
    /\ validateType(value, rules.type)
    /\ rules.normalize # "none" =>
          CallNormalize(rules.normalize, value) = [threw |-> FALSE, value |-> value]
    /\ rules.validate # "none" =>
          /\ ~CallValidate(rules.validate, value).threw
          /\ CallValidate(rules.validate, value).result

RecordValid(record) ==
    /\ ~validate(MetadataSchema, record).threw
    /\ validate(MetadataSchema, record).valid
    /\ \A field \in SchemaFields(MetadataSchema) :
          IF MetadataSchema.rules[field].required
          THEN /\ Get(record, field).t \notin {"undefined", "null"}
               /\ FieldValid(MetadataSchema.rules[field], Get(record, field))
          ELSE \/ Get(record, field) = Undefined
               \/ FieldValid(MetadataSchema.rules[field], Get(record, field))

\* C27: every record of a store built by addMetadata, updateMetadata,
\* deduplicate and clear passes validate under the built-in schema: title,
\* author and zone are present, of a declared type, normalized and accepted
\* by their validate functions, and each optional field is undefined or of
\* its type, normalized and accepted.
StoreValid == \A i \in 1..Len(metadataStore) : RecordValid(metadataStore[i])

\* An update has written a record with a zone and an author list that it
\* normalized, next to another record.
UpdatedRecordValid ==
    /\ call.name = "updateMetadata"
    /\ ~ret.threw
    /\ Len(metadataStore) = 2
    /\ metadataStore[call.index + 1] = ret.value
    /\ Get(call.updates, "zone") = Str(<<" ", "Q", " ">>)
    /\ Get(ret.value, "zone") = Str(<<"q">>)
    /\ Get(ret.value, "author") = StrArr(<<<<"B">>>>)
    /\ Get(ret.value, "version") # Undefined

(***************************************************************************)
(* src/js/reader.js: the PDF reader page.  reader holds the variables of   *)
(* the script, the children of pdfContainer, the value of pdfSearchInput   *)
(* and the async functions that are suspended at an await (tasks).  Every  *)
(* action is one turn of the event loop: a click handler up to its first   *)
(* await, or the resumption of one suspended function up to its next one.  *)
(* Scales are counted in tenths.  The pages of the document render without *)
(* error.                                                                  *)
(***************************************************************************)

\* let currentScale = 1.5
initialScale == 15

scaleStep == 2

minScale == 5

maxScale == 30

\* The most pages a document of the model has.
MaxPages == 2

\* The most clicks on the zoom buttons that change the scale.
MaxZooms == 2

\* textContent.items of a page of the document, each item by its str.
TextItems(pageNum) ==
    CASE pageNum % 3 = 1 -> << <<"a", "a", "a">> >>
      [] pageNum % 3 = 2 -> << <<"A">>, <<" ">>, <<"b">> >>
      [] OTHER -> << >>

\* The message init puts in the container while loading or after a failure.
MessageDiv == [page |-> 0, scale |-> 0]

\* An index of pageTextData that was never assigned.
EmptySlot == [defined |-> FALSE, text |-> <<>>]

\* The script has run up to the await of init: the variables have their
\* first values, the container shows the loading message.
Opened ==
    [page |-> "open", currentScale |-> initialScale, pdfDoc |-> "null",
     currentPage |-> 1, totalPages |-> 0, pageTextData |-> <<>>,
     searchMatches |-> <<>>, currentMatchIndex |-> 0 - 1,
     container |-> <<MessageDiv>>, searchInput |-> <<>>,
     tasks |-> <<[fn |-> "init", pc |-> "getDocument", pageNum |-> 0, viewport |-> 0]>>,
     zooms |-> 0, overlapped |-> FALSE]

\* The tasks without the i-th.
Finished(tasks, i) == SubSeq(tasks, 1, i - 1) \o SubSeq(tasks, i + 1, Len(tasks))

\* A function is suspended inside renderAllPages.
Rendering(r) == \E i \in 1..Len(r.tasks) : r.tasks[i].pc # "getDocument"

\* renderAllPages up to its first await: the container and pageTextData
\* are emptied; with no page to render the function ends at once.
renderAllPages(r, fn) ==
    LET Cleared(c) ==
            IF 1 <= c.totalPages
            THEN [c EXCEPT !.tasks = Append(@, [fn |-> fn, pc |-> "getPage",
                                                 pageNum |-> 1, viewport |-> 0])]
            ELSE c
    IN  Cleared([r EXCEPT !.container = <<>>, !.pageTextData = <<>>])

\* let pageText = ''; items.forEach(...): the items that are not blank, each
\* followed by a blank.
RECURSIVE pageTextOf(_)
pageTextOf(items) ==
    IF items = <<>> THEN <<>>
    ELSE (IF trim(Head(items)) # <<>> THEN Head(items) \o <<" ">> ELSE <<>>)
         \o pageTextOf(Tail(items))

\* pageTextData[index] = data, index counted from 0: an array shorter than
\* index grows with empty slots.
setPageText(data, index, entry) ==
    [i \in 1..(IF index + 1 > Len(data) THEN index + 1 ELSE Len(data)) |->
        IF i = index + 1 THEN entry
        ELSE IF i <= Len(data) THEN data[i] ELSE EmptySlot]

\* The i-th suspended function goes on to its next await or to its end.
resume(r, i) ==
    LET t == r.tasks[i]
        Advance(c) ==
            IF t.pageNum + 1 <= c.totalPages
            THEN [c EXCEPT !.tasks[i] = [t EXCEPT !.pc = "getPage", !.pageNum = @ + 1,
                                                  !.viewport = 0]]
            ELSE [c EXCEPT !.tasks = Finished(@, i)]
    IN  CASE t.pc = "getPage" ->
               [r EXCEPT !.container = Append(@, [page |-> t.pageNum,
                                                  scale |-> r.currentScale]),
                         !.tasks[i] = [t EXCEPT !.pc = "render",
                                                !.viewport = r.currentScale]]
          [] t.pc = "render" ->
               [r EXCEPT !.tasks[i] = [t EXCEPT !.pc = "getTextContent"]]
          [] t.pc = "getTextContent" ->
               Advance([r EXCEPT !.pageTextData =
                        setPageText(@, t.pageNum - 1,
                                    [defined |-> TRUE,
                                     text |-> trim(pageTextOf(TextItems(t.pageNum)))])])
          [] OTHER -> r

\* init after the document has loaded with numPages pages.
init_loaded(r, i, numPages) ==
    renderAllPages([r EXCEPT !.pdfDoc = "doc", !.totalPages = numPages,
                             !.tasks = Finished(@, i)], "init")

\* init after the loading has failed.
init_failed(r, i) == [r EXCEPT !.container = <<MessageDiv>>, !.tasks = Finished(@, i)]

\* The click handlers of zoomInBtn and zoomOutBtn, up to their await.
zoom(r, step, allowed) ==
    IF allowed
    THEN renderAllPages([r EXCEPT !.currentScale = @ + step, !.zooms = @ + 1,
                                  !.overlapped = @ \/ Rendering(r)], "zoom")
    ELSE r

zoomIn(r) == zoom(r, scaleStep, r.currentScale + scaleStep <= maxScale)

zoomOut(r) == zoom(r, 0 - scaleStep, r.currentScale - scaleStep >= minScale)

\* One turn of the event loop of the reader page.
ReaderEvent(name, arg, r) ==
    /\ call = Idle
    /\ call' = [name |-> name, arg |-> arg]
    /\ ret' = NoResult
    /\ pre' = reader
    /\ reader' = r
    /\ UNCHANGED <<database, schema, metadataStore, errors, warnings, clock, newStore>>

InitReader == Constructed(MetadataSchema) /\ database = Disconnected /\ reader = Opened

DocumentLoaded ==
    \E i \in 1..Len(reader.tasks), numPages \in 1..MaxPages :
        /\ reader.tasks[i].pc = "getDocument"
        /\ ReaderEvent("init", <<>>, init_loaded(reader, i, numPages))

DocumentFailed ==
    \E i \in 1..Len(reader.tasks) :
        /\ reader.tasks[i].pc = "getDocument"
        /\ ReaderEvent("init", <<>>, init_failed(reader, i))

Resume ==
    \E i \in 1..Len(reader.tasks) :
        /\ reader.tasks[i].pc # "getDocument"
        /\ ReaderEvent("resume", <<>>, resume(reader, i))

ZoomIn == reader.zooms < MaxZooms /\ ReaderEvent("zoomIn", <<>>, zoomIn(reader))

ZoomOut == reader.zooms < MaxZooms /\ ReaderEvent("zoomOut", <<>>, zoomOut(reader))

NextRender == Return \/ DocumentLoaded \/ DocumentFailed \/ Resume \/ ZoomIn \/ ZoomOut

SpecRender == InitReader /\ [][NextRender]_vars

\* No function is suspended any more and the document has loaded.
RendersFinished == reader.page = "open" /\ reader.tasks = <<>> /\ reader.pdfDoc = "doc"

\* The page numbers of the page elements of a container, in their order.
PageIdsOf(container) == [i \in 1..Len(container) |-> container[i].page]

\* C28: when a zoom click has arrived while a renderAllPages was suspended
\* at an await, then once every pending render has finished the container
\* holds exactly one page element for each page 1..totalPages, in page
\* order, all drawn at the latest scale, and pageTextData has exactly one
\* entry per page.
RenderedOncePerPage ==
    (RendersFinished /\ reader.overlapped) =>
        /\ PageIdsOf(reader.container) = [i \in 1..reader.totalPages |-> i]
        /\ \A i \in 1..Len(reader.container) :
              reader.container[i].scale = reader.currentScale
        /\ Len(reader.pageTextData) = reader.totalPages
        /\ \A i \in 1..reader.totalPages : reader.pageTextData[i].defined

\* After a zoom click during a render, every render has finished and the
\* container holds two elements of the same page.
PageElementTwice ==
    /\ RendersFinished
    /\ reader.overlapped
    /\ \E i, j \in 1..Len(reader.container) :
          i < j /\ reader.container[i].page = reader.container[j].page

\* The most clicks on the zoom buttons while the document is searched.
MaxSearchZooms == 1

\* The longest prefix of s made of digits.
RECURSIVE DigitPrefix(_)
DigitPrefix(s) ==
    IF s # <<>> /\ IsDigit(Head(s)) THEN <<Head(s)>> \o DigitPrefix(Tail(s)) ELSE <<>>

\* parseInt(value, 10): leading blanks are skipped, a sign is read, then
\* the digits up to the first character that is none; without a digit
\* there the result is NaN.
parseInt(value) ==
    LET Signed(s, sign) ==
            LET Digits(d) ==
                    IF d = <<>> THEN [nan |-> TRUE, n |-> 0]
                    ELSE [nan |-> FALSE, n |-> sign * DecimalValue(d)]
            IN  Digits(DigitPrefix(s))
        Started(s) ==
            IF s # <<>> /\ Head(s) = "-" THEN Signed(Tail(s), 0 - 1)
            ELSE IF s # <<>> /\ Head(s) = "+" THEN Signed(Tail(s), 1)
            ELSE Signed(s, 1)
    IN  Started(trimStart(value))

\* The click handler of prevPageBtn.
prevPage(r) == IF r.currentPage > 1 THEN [r EXCEPT !.currentPage = @ - 1] ELSE r

\* The click handler of nextPageBtn.
nextPage(r) == IF r.currentPage < r.totalPages THEN [r EXCEPT !.currentPage = @ + 1] ELSE r

\* goPage, without the upper limit of the page number.
goPageNoLimit(r, value) ==
    LET Go(pageNum) ==
            IF ~pageNum.nan /\ pageNum.n >= 1
            THEN [r EXCEPT !.currentPage = pageNum.n]
            ELSE r
    IN  Go(parseInt(value))

\* The click handler of goPageBtn with value typed in pageInput; the alert
\* changes nothing.
goPage(r, value) ==
    LET Go(pageNum) ==
            IF ~pageNum.nan /\ pageNum.n >= 1 /\ pageNum.n <= r.totalPages
            THEN [r EXCEPT !.currentPage = pageNum.n]
            ELSE r
    IN  Go(parseInt(value))

\* String.prototype.indexOf(term, startPos), positions counted from 0.
indexOf(text, term, startPos) ==
    LET found == {p \in startPos..(Len(text) - Len(term)) :
                     SubSeq(text, p + 1, p + Len(term)) = term}
    IN  IF found = {} THEN 0 - 1 ELSE CHOOSE p \in found : \A q \in found : p <= q

\* The while loop of performSearch on one page.
RECURSIVE pageMatches(_, _, _, _)
pageMatches(pageTextLower, searchTerm, pageNumber, startPos) ==
    LET Found(foundPos) ==
            IF foundPos = 0 - 1 THEN <<>>
            ELSE <<[pageNumber |-> pageNumber, position |-> foundPos, text |-> searchTerm]>>
                 \o pageMatches(pageTextLower, searchTerm, pageNumber, foundPos + 1)
    IN  Found(indexOf(pageTextLower, toLowerCase(searchTerm), startPos))

\* The for loop of performSearch from pageIndex on.
RECURSIVE allMatches(_, _, _)
allMatches(data, searchTerm, pageIndex) ==
    IF pageIndex >= Len(data) THEN <<>>
    ELSE (IF ~data[pageIndex + 1].defined \/ data[pageIndex + 1].text = <<>> THEN <<>>
          ELSE pageMatches(toLowerCase(data[pageIndex + 1].text), searchTerm,
                           pageIndex + 1, 0))
         \o allMatches(data, searchTerm, pageIndex + 1)

clearSearch(r) ==
    [r EXCEPT !.searchInput = <<>>, !.searchMatches = <<>>, !.currentMatchIndex = 0 - 1]

goToMatch(r, index) ==
    IF index < 0 \/ index >= Len(r.searchMatches) THEN r
    ELSE [r EXCEPT !.currentMatchIndex = index,
                   !.currentPage = r.searchMatches[index + 1].pageNumber]

\* performSearch with value in pdfSearchInput.
performSearch(r, value) ==
    LET Searched(c) ==
            IF Len(c.searchMatches) > 0
            THEN goToMatch([c EXCEPT !.currentMatchIndex = 0], 0)
            ELSE c
    IN  IF trim(value) = <<>> THEN clearSearch(r)
        ELSE Searched([r EXCEPT !.searchInput = value,
                                !.searchMatches = allMatches(r.pageTextData, trim(value), 0),
                                !.currentMatchIndex = 0 - 1])

\* A variant of nextMatch that stops at the last match.
nextMatchNoWrap(r) ==
    IF Len(r.searchMatches) = 0 THEN r ELSE goToMatch(r, r.currentMatchIndex + 1)

nextMatch(r) ==
    IF Len(r.searchMatches) = 0 THEN r
    ELSE goToMatch(r, (r.currentMatchIndex + 1) % Len(r.searchMatches))

prevMatch(r) ==
    IF Len(r.searchMatches) = 0 THEN r
    ELSE goToMatch(r, IF r.currentMatchIndex = 0 THEN Len(r.searchMatches) - 1
                      ELSE r.currentMatchIndex - 1)

\* What is typed in pageInput.
PageInputs == {<<>>, <<"0">>, <<"1">>, <<"9">>, <<"2", "x">>, <<"x">>, <<" ", "-", "2">>}

\* What is typed in pdfSearchInput.
SearchInputs == {<<"a">>, <<" ", "B", " ">>, <<" ">>}

PrevPage == ReaderEvent("prevPage", <<>>, prevPage(reader))

NextPage == ReaderEvent("nextPage", <<>>, nextPage(reader))

GoPage == \E value \in PageInputs : ReaderEvent("goPage", value, goPage(reader, value))

PerformSearch ==
    \E value \in SearchInputs : ReaderEvent("performSearch", value, performSearch(reader, value))

ClearSearch == ReaderEvent("clearSearch", <<>>, clearSearch(reader))

NextMatch == ReaderEvent("nextMatch", <<>>, nextMatch(reader))

PrevMatch == ReaderEvent("prevMatch", <<>>, prevMatch(reader))

\* The reader is paged through and searched while it renders.
NextPaging ==
    \/ Return \/ DocumentLoaded \/ DocumentFailed \/ Resume
    \/ PrevPage \/ NextPage \/ GoPage
    \/ PerformSearch \/ NextMatch \/ PrevMatch

SpecPaging == InitReader /\ [][NextPaging]_vars

\* A zoom click while the document is searched: it arrives before the
\* document has loaded, during a render or after it, but not while two
\* functions are suspended.
ZoomInSearching ==
    Len(reader.tasks) <= 1 /\ reader.zooms < MaxSearchZooms /\ ZoomIn

ZoomOutSearching ==
    Len(reader.tasks) <= 1 /\ reader.zooms < MaxSearchZooms /\ ZoomOut

\* The document is searched and zoomed while it renders.
NextMatches ==
    \/ Return \/ DocumentLoaded \/ DocumentFailed \/ Resume
    \/ ZoomInSearching \/ ZoomOutSearching
    \/ PerformSearch \/ ClearSearch \/ NextMatch \/ PrevMatch

SpecMatches == InitReader /\ [][NextMatches]_vars

\* A document is loaded when the handler of the last event started.
LoadedBefore == call.name \in {"prevPage", "nextPage", "goPage"} /\ pre.pdfDoc = "doc"

\* The text is a decimal number, with a sign or not, between blanks or not.
IsNumber(value) ==
    LET Unsigned(s) == s # <<>> /\ \A i \in 1..Len(s) : IsDigit(s[i])
        Signed(s) == IF s # <<>> /\ Head(s) \in {"-", "+"} THEN Unsigned(Tail(s))
                     ELSE Unsigned(s)
    IN  Signed(trim(value))

\* The number a text that is one stands for.
NumberOf(value) ==
    LET Signed(s) == IF Head(s) = "-" THEN 0 - DecimalValue(Tail(s))
                     ELSE IF Head(s) = "+" THEN DecimalValue(Tail(s))
                     ELSE DecimalValue(s)
    IN  Signed(trim(value))

\* currentPage stays within 1..totalPages once a document is loaded, and
\* previous-page at page 1 and next-page at the last page change nothing.
PagingInRange ==
    /\ (reader.page = "open" /\ reader.pdfDoc = "doc") =>
          reader.currentPage \in 1..reader.totalPages
    /\ (LoadedBefore /\ call.name = "prevPage" /\ pre.currentPage = 1) => reader = pre
    /\ (LoadedBefore /\ call.name = "nextPage" /\ pre.currentPage = pre.totalPages) =>
          reader = pre

\* C29 as stated: currentPage stays within 1..totalPages once a document
\* is loaded, previous-page at page 1 and next-page at the last page leave
\* it unchanged, and so does a go-to-page whose input is no number or a
\* number outside 1..totalPages.
InvalidPageInputIgnored ==
    /\ PagingInRange
    /\ (LoadedBefore /\ call.name = "goPage"
        /\ (~IsNumber(call.arg) \/ NumberOf(call.arg) \notin 1..pre.totalPages)) =>
          reader.currentPage = pre.currentPage

\* C29: currentPage stays within 1..totalPages once a document is loaded;
\* previous-page at page 1 and next-page at the last page leave it
\* unchanged; a go-to-page leaves it unchanged when the input does not
\* start, after blanks and a sign, with digits, or when the number these
\* leading digits spell is outside 1..totalPages, and otherwise goes to
\* the page of that number whatever follows the digits.
PageOfLeadingDigits ==
    /\ PagingInRange
    /\ (LoadedBefore /\ call.name = "goPage") =>
          IF parseInt(call.arg).nan \/ parseInt(call.arg).n \notin 1..pre.totalPages
          THEN reader = pre
          ELSE reader = [pre EXCEPT !.currentPage = parseInt(call.arg).n]

\* A go-to-page with the input "2x" has moved the reader from page 1 to
\* page 2.
WentToPageOfPrefix ==
    /\ LoadedBefore
    /\ call.name = "goPage"
    /\ call.arg = <<"2", "x">>
    /\ pre.currentPage = 1
    /\ reader.currentPage = 2

\* The last event was a click on the next-match or previous-match button.
MatchStep(name) == call.name = name /\ pre.page = "open"

\* The index after a cyclic step forward or backward among length matches.
CyclicNext(index, length) == IF index = length - 1 THEN 0 ELSE index + 1

CyclicPrev(index, length) == IF index = 0 THEN length - 1 ELSE index - 1

\* C30: after any sequence of search, clear-search, next-match,
\* previous-match and zoom actions either searchMatches is empty and
\* currentMatchIndex is -1, or 0 <= currentMatchIndex < searchMatches.length;
\* next-match and previous-match move cyclically among the matches, next
\* followed by previous returns to the same match, and both do nothing when
\* there are no matches.
SearchStateCyclic ==
    reader.page = "open" =>
        /\ \/ reader.searchMatches = <<>> /\ reader.currentMatchIndex = 0 - 1
           \/ /\ reader.searchMatches # <<>>
              /\ 0 <= reader.currentMatchIndex
              /\ reader.currentMatchIndex < Len(reader.searchMatches)
        /\ MatchStep("nextMatch") =>
              IF pre.searchMatches = <<>> THEN reader = pre
              ELSE /\ reader.searchMatches = pre.searchMatches
                   /\ reader.currentMatchIndex =
                         CyclicNext(pre.currentMatchIndex, Len(pre.searchMatches))
        /\ MatchStep("prevMatch") =>
              IF pre.searchMatches = <<>> THEN reader = pre
              ELSE /\ reader.searchMatches = pre.searchMatches
                   /\ reader.currentMatchIndex =
                         CyclicPrev(pre.currentMatchIndex, Len(pre.searchMatches))
        /\ prevMatch(nextMatch(reader)).currentMatchIndex = reader.currentMatchIndex
        /\ prevMatch(nextMatch(reader)).searchMatches = reader.searchMatches

\* After a zoom, next-match on the last of several matches has gone to the
\* first one.
WrappedToFirstMatch ==
    /\ MatchStep("nextMatch")
    /\ Len(pre.searchMatches) >= 2
    /\ pre.currentMatchIndex = Len(pre.searchMatches) - 1
    /\ reader.currentMatchIndex = 0
    /\ reader.zooms > 0
    /\ reader.currentPage # pre.currentPage

====
